---- MODULE Spec2Model ----
(***************************************************************************)
(* Device / PreparedModel execution-dispatch layer of the NNAPI runtime    *)
(* (runtime/Manager.cpp): pointer-argument pool layout, request dispatch   *)
(* over burst / synchronous / asynchronous backend paths, the reference    *)
(* (CPU) execution path and the supported-operations query.                *)
(***************************************************************************)
EXTENDS Integers, Naturals, Sequences, FiniteSets, TLC

(***************************************************************************)
(* Byte quantities.  The code computes offsets in uint32_t and the running *)
(* total in int64_t.  TLC integers are 32-bit signed, so a quantity is kept *)
(* at its real width as two limbs <<hi, lo>> of 16 bits: value =           *)
(* hi * 2^16 + lo.  A uint32_t has hi < 2^16; the int64_t total may have a  *)
(* larger hi.                                                              *)
(***************************************************************************)
LimbBase == 2^16

Num(n) == <<n \div LimbBase, n % LimbBase>>

NumAdd(a, b) ==
    LET lo == a[2] + b[2]
    IN  <<a[1] + b[1] + (lo \div LimbBase), lo % LimbBase>>

NumLe(a, b) == a[1] < b[1] \/ (a[1] = b[1] /\ a[2] <= b[2])

NumLt(a, b) == a[1] < b[1] \/ (a[1] = b[1] /\ a[2] < b[2])

\* static_cast<uint32_t>(int64_t): keeps the low 32 bits.
static_cast_uint32(a) == <<a[1] % LimbBase, a[2]>>

\* 0xFFFFFFFF, the largest value the pool length may take (Manager.cpp:342).
UINT32_MAX == <<LimbBase - 1, LimbBase - 1>>

\* a - b for a >= b.
NumSub(a, b) ==
    IF a[2] >= b[2] THEN <<a[1] - b[1], a[2] - b[2]>>
    ELSE <<a[1] - b[1] - 1, a[2] + LimbBase - b[2]>>

(***************************************************************************)
(* Bounds of the model.                                                    *)
(***************************************************************************)
\* Largest small length of a pointer argument in the layout specification.
MaxLen == 4
\* Most arguments of one list in the layout specification.
MaxLayoutArgs == 3
\* Most arguments (inputs plus outputs) of one execution.
MaxArgs == 3
\* Bytes of every buffer and pool whose contents are modelled: addresses
\* 0 .. Window-1.  A byte beyond the window reads as OutsideWindow.
Window == 12
\* Most completion notifications a backend sends for one asynchronous launch.
MaxBackendNotifies == 2
\* Most operations of a graph.
MaxOperations == 3

(***************************************************************************)
(* Result codes (NeuralNetworks.h ResultCode) and backend statuses.        *)
(***************************************************************************)
ANEURALNETWORKS_NO_ERROR == 0
ANEURALNETWORKS_OUT_OF_MEMORY == 1
ANEURALNETWORKS_BAD_DATA == 4
ANEURALNETWORKS_OP_FAILED == 5
ANEURALNETWORKS_UNMAPPABLE == 7
ANEURALNETWORKS_BAD_STATE == 6

ErrorStatus ==
    {"NONE", "GENERAL_FAILURE", "OUTPUT_INSUFFICIENT_SIZE", "INVALID_ARGUMENT"}

\* Utils.cpp convertErrorStatusToResultCode: not among the sources; the
\* specification says a backend-reported error is surfaced as OperationFailed.
convertErrorStatusToResultCode(status) ==
    IF status = "NONE" THEN ANEURALNETWORKS_NO_ERROR ELSE ANEURALNETWORKS_OP_FAILED

\* Utils.cpp convertResultCodeToErrorStatus, used by computeOnCpu.
convertResultCodeToErrorStatus(err) ==
    IF err = ANEURALNETWORKS_NO_ERROR THEN "NONE"
    ELSE IF err = ANEURALNETWORKS_BAD_DATA THEN "INVALID_ARGUMENT"
    ELSE "GENERAL_FAILURE"

(***************************************************************************)
(* ModelArgumentInfo and the pool layout.                                  *)
(***************************************************************************)
HAS_NO_VALUE == "HAS_NO_VALUE"
POINTER == "POINTER"
MEMORY == "MEMORY"

\* Utils.cpp alignBytesNeeded(index, length): the padding that brings index
\* to the natural alignment of an object of that length: none below 2 bytes,
\* 2-byte below 4 bytes, else 4-byte.  extra = (~(index - 1)) & pattern.
AlignmentOf(length) ==
    IF NumLt(length, Num(2)) THEN 1
    ELSE IF NumLt(length, Num(4)) THEN 2
    ELSE 4

alignBytesNeeded(index, length) ==
    LET a == AlignmentOf(length)
    IN  (a - (index[2] % a)) % a

\* One iteration of the loop of allocatePointerArgumentsToPool, without the
\* alignment padding (mutant of LayoutStep).
LayoutStepUnaligned(info, total, nextPoolIndex) ==
    IF info.state = POINTER
    THEN [info  |-> [info EXCEPT !.locationAndLength.poolIndex = nextPoolIndex,
                                 !.locationAndLength.offset = static_cast_uint32(total)],
          total |-> NumAdd(total, info.locationAndLength.length)]
    ELSE [info |-> info, total |-> total]

\* One iteration of the loop without the test of line 333: arguments of
\* every state are placed (mutant of LayoutStep).
LayoutStepAllStates(info, total, nextPoolIndex) ==
    LET padded == NumAdd(total,
                         Num(alignBytesNeeded(static_cast_uint32(total),
                                              info.locationAndLength.length)))
    IN  [info  |-> [info EXCEPT !.locationAndLength.poolIndex = nextPoolIndex,
                                !.locationAndLength.offset = static_cast_uint32(padded)],
         total |-> NumAdd(padded, info.locationAndLength.length)]

\* One iteration of the loop of allocatePointerArgumentsToPool: the argument
\* and the running total after it.
LayoutStep(info, total, nextPoolIndex) ==
    IF info.state = POINTER
    THEN LET padded == NumAdd(total,
                              Num(alignBytesNeeded(static_cast_uint32(total),
                                                   info.locationAndLength.length)))
         IN  [info  |-> [info EXCEPT !.locationAndLength.poolIndex = nextPoolIndex,
                                     !.locationAndLength.offset = static_cast_uint32(padded)],
              total |-> NumAdd(padded, info.locationAndLength.length)]
    ELSE [info |-> info, total |-> total]

\* The loop of allocatePointerArgumentsToPool over the first k arguments.
RECURSIVE LayoutLoop(_, _, _)
LayoutLoop(args, k, nextPoolIndex) ==
    IF k = 0 THEN [args |-> args, total |-> Num(0)]
    ELSE LET before == LayoutLoop(args, k - 1, nextPoolIndex)
             step   == LayoutStep(before.args[k], before.total, nextPoolIndex)
         IN  [args  |-> [before.args EXCEPT ![k] = step.info],
              total |-> step.total]

\* LayoutCode without the size check (mutant of LayoutCode).
LayoutCodeUnchecked(total) == ANEURALNETWORKS_NO_ERROR

\* The result code allocatePointerArgumentsToPool returns before it tries to
\* create the pool: BAD_DATA when the total exceeds 32 bits.
LayoutCode(total) ==
    IF NumLt(UINT32_MAX, total) THEN ANEURALNETWORKS_BAD_DATA
    ELSE ANEURALNETWORKS_NO_ERROR

(***************************************************************************)
(* Memory: caller buffers and shared-memory pools.  Contents are modelled   *)
(* for the addresses inside the window.                                    *)
(***************************************************************************)
OutsideWindow == 0 - 1

\* Number of modelled bytes of a region of n bytes.
WindowLen(n) == IF n[1] = 0 /\ n[2] < Window THEN n[2] ELSE Window

\* Address x (inside the window) lies in [offset, offset + length).
InRegion(x, offset, length) ==
    NumLe(offset, Num(x)) /\ NumLt(Num(x), NumAdd(offset, length))

\* memcpy(data, src, length): the offset is dropped (mutant of MemcpyToPool).
MemcpyToPoolStart(data, offset, src, length) ==
    [a \in 1..Len(data) |->
        IF InRegion(a - 1, Num(0), length) THEN src[a] ELSE data[a]]

\* memcpy(data + offset, src, length) on the modelled bytes of a pool.
MemcpyToPool(data, offset, src, length) ==
    [a \in 1..Len(data) |->
        IF InRegion(a - 1, offset, length) THEN src[a - offset[2]] ELSE data[a]]

\* memcpy(buffer, data + offset, length) on the modelled bytes of a buffer.
MemcpyFromPool(buffer, data, offset, length) ==
    [k \in 1..Len(buffer) |->
        IF NumLt(Num(k - 1), length)
        THEN IF offset[1] = 0 /\ offset[2] + k <= Len(data)
             THEN data[offset[2] + k] ELSE OutsideWindow
        ELSE buffer[k]]

\* A fresh pool of the given size: MemoryAshmem::create maps zero-filled
\* anonymous shared memory.
FreshPool(size) ==
    [size |-> size, data |-> [a \in 1..WindowLen(size) |-> 0],
     alive |-> TRUE, usedBy |-> FALSE]

(***************************************************************************)
(* The completion signal (ExecutionCallback, Callbacks.h: not among the    *)
(* sources).  One-shot: a notification of an already notified signal is    *)
(* ignored.                                                                *)
(***************************************************************************)
NewExecutionCallback ==
    [notified |-> FALSE, status |-> "NONE", outputShapes |-> 0, timing |-> 0]

Notify(cb, res) ==
    IF cb.notified THEN cb
    ELSE [notified |-> TRUE, status |-> res.status,
          outputShapes |-> res.outputShapes, timing |-> res.timing]

\* What a backend can answer for one computation.
OutputShapesValues == {1, 2}
TimingValues == {1, 2}
BackendResults ==
    [status : ErrorStatus, outputShapes : OutputShapesValues, timing : TimingValues]

\* kNoTiming, the timing of every reference-device result.
kNoTiming == "kNoTiming"

(***************************************************************************)
(* State of one execute() call.                                            *)
(***************************************************************************)
VARIABLES
    device,                  \* "driver" (DriverPreparedModel) or "cpu" (CpuPreparedModel)
    config,                  \* burstController supplied, syncExecHal, syncExecCpu
    pc,                      \* position of the calling thread in execute()
    inputs, outputs,         \* the caller's std::vector<ModelArgumentInfo>
    callerBuffers,           \* contents of the caller-owned buffers, per side
    memories,                \* MemoryTracker: the pools' heap ids, in index order
    heap,                    \* the pool objects
    inputPointerArguments,   \* heap id of the input pool, 0 for nullptr
    outputPointerArguments,  \* heap id of the output pool, 0 for nullptr
    request,                 \* the wire Request
    executionCallback,       \* the completion signal of this execution
    synchronizationCallback, \* the caller's out-parameter
    result,                  \* execute()'s return value, NotReturned while running
    backend,                 \* backend side: asynchronous launch in flight, worker thread
    hist,                    \* history of the call (records only, never read by the code)
    query,                   \* one getSupportedOperations call
    compile,                 \* one prepareModel / prepareModelFromCache / create call
    registry,                \* DeviceManager: discovery and the device list
    callers,                 \* threads calling DeviceManager::get()
    access,                  \* calls of the accessors of the registered devices
    owners,                  \* the caller's handles on one execution, threads waiting
    api                      \* one model and its compilation under the public API

execVars == <<device, config, pc, inputs, outputs, callerBuffers, memories, heap,
              inputPointerArguments, outputPointerArguments, request,
              executionCallback, synchronizationCallback, result, backend, hist>>

\* The state outside execute().
restVars == <<callers, access, owners, api>>
otherVars == <<query, compile, registry, restVars>>

vars == <<execVars, otherVars>>

NotReturned == 0 - 1
NoRequest == [inputs |-> <<>>, outputs |-> <<>>, pools |-> <<>>, built |-> FALSE]
NoResult == [status |-> "NO_RESULT", outputShapes |-> 0, timing |-> 0]

\* ModelArgumentInfo as the execution builder leaves it.
NoValueArgument ==
    [state |-> HAS_NO_VALUE, buffer |-> 0, dimensions |-> <<>>,
     locationAndLength |-> [poolIndex |-> 0, offset |-> Num(0), length |-> Num(0)]]

\* An argument bound to the region [0, 4) of the caller's memory, pool 0.
MemoryArgument ==
    [state |-> MEMORY, buffer |-> 0, dimensions |-> <<>>,
     locationAndLength |-> [poolIndex |-> 0, offset |-> Num(0), length |-> Num(4)]]

\* An argument bound to the caller's buffer number `buffer`, of `length` bytes.
PointerArgument(buffer, length) ==
    [state |-> POINTER, buffer |-> buffer, dimensions |-> <<>>,
     locationAndLength |-> [poolIndex |-> 0, offset |-> Num(0), length |-> length]]

\* 0x80000000: two of them exceed 32 bits.
HugeLength == <<2^15, 0>>
\* 0xFFFFFFFC: fills a pool up to the last 4-byte boundary.
NearMaxLength == <<LimbBase - 1, LimbBase - 4>>

ArgumentKinds(lengths) ==
    {<<HAS_NO_VALUE, Num(0)>>, <<MEMORY, Num(4)>>} \cup {<<POINTER, l>> : l \in lengths}

MakeArguments(kinds) ==
    [i \in 1..Len(kinds) |->
        IF kinds[i][1] = POINTER THEN PointerArgument(i, kinds[i][2])
        ELSE IF kinds[i][1] = MEMORY THEN MemoryArgument
        ELSE NoValueArgument]

SeqsUpTo(S, n) == UNION {[1..k -> S] : k \in 0..n}

\* Contents of the caller's buffers: every input byte is distinct, every
\* output byte starts as 7.
InputBuffers(args) ==
    [i \in 1..Len(args) |->
        [k \in 1..WindowLen(args[i].locationAndLength.length) |-> 20 * i + k]]
OutputBuffers(args) ==
    [i \in 1..Len(args) |->
        [k \in 1..WindowLen(args[i].locationAndLength.length) |-> 7]]

HasMemoryArgument(args) == \E i \in 1..Len(args) : args[i].state = MEMORY

\* The caller's pool behind the MEMORY-state arguments.
CallerPool ==
    [size |-> Num(4), data |-> <<9, 9, 9, 9>>, alive |-> TRUE, usedBy |-> FALSE]

ExecLengths == {Num(0), Num(1), Num(4), HugeLength}

InitExecution(ins, outs) ==
    /\ inputs = ins
    /\ outputs = outs
    /\ callerBuffers = [in |-> InputBuffers(ins), out |-> OutputBuffers(outs)]
    /\ heap = IF HasMemoryArgument(ins) \/ HasMemoryArgument(outs)
              THEN <<CallerPool>> ELSE <<>>
    /\ memories = [i \in 1..Len(heap) |-> i]
    /\ inputPointerArguments = 0
    /\ outputPointerArguments = 0
    /\ request = NoRequest
    /\ executionCallback = NewExecutionCallback
    /\ synchronizationCallback \in {"nullptr", "stale"}
    /\ result = NotReturned
    /\ pc = "start"
    /\ backend = [launched |-> FALSE, notifies |-> 0, thread |-> "none",
                  bound |-> FALSE]
    /\ hist = [inputs0 |-> ins, outputs0 |-> outs, tracker0 |-> Len(heap),
               runtimeNotifies |-> 0, delivered |-> NoResult,
               fallback |-> FALSE,
               produced |-> NoResult, launch |-> "NOT_LAUNCHED", steps |-> <<>>,
               poolAtCompletion |-> <<>>, poolAtDispatch |-> <<>>,
               memoryIds |-> <<>>, usedAtTryCompute |-> {},
               callback0 |-> synchronizationCallback]

\* No getSupportedOperations call in progress.
NoQuery == [phase |-> "none"]

\* No compile call in progress.
NoCompile == [phase |-> "none"]

\* No DeviceManager under construction.
NoDiscovery == [phase |-> "none"]

\* No thread has called DeviceManager::get().
NoCallers == [phase |-> "none"]

\* The state outside execute(), the queries, compilation and discovery.
NoRest ==
    /\ callers = NoCallers
    /\ access = [phase |-> "none"]
    /\ owners = [phase |-> "none"]
    /\ api = [phase |-> "none"]

\* The calls of execute() considered: the device, the configuration and
\* the arguments.
ExecutionCalls ==
    /\ \E d \in {"driver", "cpu"} :
         /\ device = d
         /\ config \in IF d = "driver"
                       THEN [burstController : BOOLEAN, syncExecHal : BOOLEAN,
                             syncExecCpu : {FALSE}]
                       ELSE [burstController : {FALSE}, syncExecHal : {FALSE},
                             syncExecCpu : BOOLEAN]
    /\ \E ni \in 0..MaxArgs :
         \E ik \in SeqsUpTo(ArgumentKinds(ExecLengths), ni),
            ok \in SeqsUpTo(ArgumentKinds(ExecLengths), MaxArgs - ni) :
            /\ Len(ik) = ni
            /\ InitExecution(MakeArguments(ik), MakeArguments(ok))

Init ==
    /\ query = NoQuery /\ compile = NoCompile /\ registry = NoDiscovery /\ NoRest
    /\ ExecutionCalls

(***************************************************************************)
(* DriverPreparedModel::execute.                                           *)
(***************************************************************************)
\* The caller's out-parameter left as it was on entry (mutant of
\* ResetCallback).
KeepCallback(callback) == callback

\* Lines 375 and 668: *synchronizationCallback = nullptr.
ResetCallback(callback) == "nullptr"

\* setRequestArgumentArray: the wire descriptors of an argument list.
setRequestArgumentArray(argumentInfos) ==
    [i \in 1..Len(argumentInfos) |->
        [hasNoValue |-> argumentInfos[i].state = HAS_NO_VALUE,
         location   |-> argumentInfos[i].locationAndLength,
         dimensions |-> argumentInfos[i].dimensions]]

\* allocatePointerArgumentsToPool without line 354, memories->add (mutant
\* of allocatePointerArgumentsToPool).
allocatePointerArgumentsToPoolNoAdd(mems, hp, args) ==
    LET lay  == LayoutLoop(args, Len(args), Len(mems))
        code == LayoutCode(lay.total)
        none(n) == [n |-> n, args |-> lay.args, heap |-> hp,
                    memories |-> mems, memory |-> 0]
    IN  IF code # ANEURALNETWORKS_NO_ERROR THEN {none(code)}
        ELSE IF lay.total = Num(0) THEN {none(ANEURALNETWORKS_NO_ERROR)}
        ELSE {none(ANEURALNETWORKS_OUT_OF_MEMORY),
              [n |-> ANEURALNETWORKS_NO_ERROR, args |-> lay.args,
               heap |-> Append(hp, FreshPool(lay.total)),
               memories |-> mems,
               memory |-> Len(hp) + 1]}

\* allocatePointerArgumentsToPool(memories, args): every outcome, as the
\* result code n, the arguments, the heap and the tracker after the call and
\* the heap id of the returned pool (0 for nullptr).  MemoryAshmem::create
\* may fail.
allocatePointerArgumentsToPool(mems, hp, args) ==
    LET lay  == LayoutLoop(args, Len(args), Len(mems))
        code == LayoutCode(lay.total)
        none(n) == [n |-> n, args |-> lay.args, heap |-> hp,
                    memories |-> mems, memory |-> 0]
    IN  IF code # ANEURALNETWORKS_NO_ERROR THEN {none(code)}
        ELSE IF lay.total = Num(0) THEN {none(ANEURALNETWORKS_NO_ERROR)}
        ELSE {none(ANEURALNETWORKS_OUT_OF_MEMORY),
              [n |-> ANEURALNETWORKS_NO_ERROR, args |-> lay.args,
               heap |-> Append(hp, FreshPool(lay.total)),
               memories |-> Append(mems, Len(hp) + 1),
               memory |-> Len(hp) + 1]}

\* The destructors of execute()'s std::unique_ptr<MemoryAshmem> locals.
DestroyLocals(hp, ids) ==
    [p \in 1..Len(hp) |-> IF p \in ids THEN [hp[p] EXCEPT !.alive = FALSE] ELSE hp[p]]

Step(name) == [hist EXCEPT !.steps = Append(@, name)]

\* Lines 371-385: reset the out-parameter, lay out the inputs.
DriverLayoutInputs ==
    /\ device = "driver" /\ pc = "start"
    /\ \E o \in allocatePointerArgumentsToPool(memories, heap, inputs) :
         /\ inputs' = o.args
         /\ heap' = o.heap
         /\ memories' = o.memories
         /\ inputPointerArguments' = o.memory
         /\ IF o.n # ANEURALNETWORKS_NO_ERROR
            THEN pc' = "done" /\ result' = o.n
            ELSE pc' = "layoutOutputs" /\ result' = result
    /\ synchronizationCallback' = ResetCallback(synchronizationCallback)
    /\ hist' = Step("layoutInputs")
    /\ UNCHANGED otherVars
    /\ UNCHANGED <<device, config, outputs, callerBuffers, outputPointerArguments,
                   request, executionCallback, backend>>

\* Lines 386-387: lay out the outputs.
DriverLayoutOutputs ==
    /\ device = "driver" /\ pc = "layoutOutputs"
    /\ \E o \in allocatePointerArgumentsToPool(memories, heap, outputs) :
         /\ outputs' = o.args
         /\ memories' = o.memories
         /\ outputPointerArguments' = o.memory
         /\ IF o.n # ANEURALNETWORKS_NO_ERROR
            THEN /\ pc' = "done" /\ result' = o.n
                 /\ heap' = DestroyLocals(o.heap, {inputPointerArguments})
            ELSE /\ pc' = "copyIn" /\ result' = result
                 /\ heap' = o.heap
    /\ hist' = Step("layoutOutputs")
    /\ UNCHANGED otherVars
    /\ UNCHANGED <<device, config, inputs, callerBuffers, inputPointerArguments,
                   request, executionCallback, synchronizationCallback, backend>>

\* The copy loop of lines 391-397 over the first k inputs.
RECURSIVE CopyInputs(_, _, _, _)
CopyInputs(data, args, buffers, k) ==
    IF k = 0 THEN data
    ELSE LET before == CopyInputs(data, args, buffers, k - 1)
         IN  IF args[k].state = POINTER
             THEN MemcpyToPool(before, args[k].locationAndLength.offset,
                               buffers[args[k].buffer],
                               args[k].locationAndLength.length)
             ELSE before

\* Lines 389-398: copy the pointer inputs into the input pool.
DriverCopyInputs ==
    /\ device = "driver" /\ pc = "copyIn"
    /\ heap' = IF inputPointerArguments # 0
               THEN [heap EXCEPT ![inputPointerArguments].data =
                        CopyInputs(@, inputs, callerBuffers.in, Len(inputs))]
               ELSE heap
    /\ pc' = "request"
    /\ hist' = Step("copyIn")
    /\ UNCHANGED otherVars
    /\ UNCHANGED <<device, config, inputs, outputs, callerBuffers, memories,
                   inputPointerArguments, outputPointerArguments, request,
                   executionCallback, synchronizationCallback, result, backend>>

\* Line 441 without its guard: the burst result is always delivered
\* (mutant of BurstNotifies).
BurstNotifiesAlways(fallback) == TRUE

\* Line 441 never taken: the burst result is dropped (mutant of
\* BurstNotifies).
BurstNotifiesNever(fallback) == FALSE

\* Line 441: the burst result is delivered unless fallback is requested.
BurstNotifies(fallback) == ~fallback

\* Line 449 without its guard (mutant of NeedsBackend).
NeedsBackendAlways(burstCompute, burstFallback) == TRUE

\* Line 449: the prepared model computes when there is no burst or the
\* burst requested a fallback.
NeedsBackend(burstCompute, burstFallback) == ~burstCompute \/ burstFallback

\* A request that lists only the pools execute() allocated (mutant of
\* RequestPools).
RequestPoolsAllocatedOnly(mems) ==
    SubSeq(mems, hist.tracker0 + 1, Len(mems))

\* Lines 403-407: request.pools[i] is the memory of (*memories)[i].
RequestPools(mems) == [i \in 1..Len(mems) |-> mems[i]]

\* Lines 400-425: assemble the request, create the completion signal.
DriverBuildRequest ==
    /\ device = "driver" /\ pc = "request"
    /\ request' = [inputs  |-> setRequestArgumentArray(inputs),
                   outputs |-> setRequestArgumentArray(outputs),
                   pools   |-> RequestPools(memories), built |-> TRUE]
    /\ executionCallback' = NewExecutionCallback
    /\ pc' = IF config.burstController THEN "burst"
             ELSE IF NeedsBackend(FALSE, FALSE) THEN "backend" ELSE "wait"
    /\ hist' = [Step("request") EXCEPT !.poolAtDispatch =
                   IF inputPointerArguments # 0
                   THEN heap[inputPointerArguments].data ELSE <<>>]
    /\ UNCHANGED otherVars
    /\ UNCHANGED <<device, config, inputs, outputs, callerBuffers, memories, heap,
                   inputPointerArguments, outputPointerArguments,
                   synchronizationCallback, result, backend>>

\* What the device leaves in the output pool: byte a becomes fill + a.
DeviceFills == {100, 200}

DeviceWrites(hp, fill) ==
    IF outputPointerArguments # 0 /\ fill # 0
    THEN [hp EXCEPT ![outputPointerArguments].data =
             [a \in 1..Len(@) |-> fill + a]]
    ELSE hp

\* The device writes the outputs of a computation that ends with NONE.
FillsFor(status) ==
    IF status = "NONE" /\ outputPointerArguments # 0 THEN DeviceFills ELSE {0}

\* memory->usedBy(burstController) for every memory of the tracker.
UsedByBurst(hp, mems) ==
    [p \in 1..Len(hp) |->
        IF \E i \in 1..Len(mems) : mems[i] = p
        THEN [hp[p] EXCEPT !.usedBy = TRUE] ELSE hp[p]]

\* Lines 429-434: the key of every memory of the tracker, in its order; the
\* key of a memory is its address.
MemoryIds(mems) == [i \in 1..Len(mems) |-> mems[i]]

\* The pools associated with the burst controller.
UsedPools(hp) == {p \in 1..Len(hp) : hp[p].usedBy}

\* Lines 427-444 with a burst controller: tryCompute, notify unless fallback.
DriverBurstCompute ==
    /\ device = "driver" /\ pc = "burst"
    /\ \E res \in BackendResults, fallback \in BOOLEAN :
         \E fill \in (IF fallback THEN {0} ELSE FillsFor(res.status)) :
            /\ heap' = DeviceWrites(UsedByBurst(heap, memories), fill)
            /\ IF BurstNotifies(fallback)
               THEN /\ executionCallback' = Notify(executionCallback, res)
                    /\ hist' = [Step("burst") EXCEPT
                                   !.fallback = fallback,
                                   !.memoryIds = MemoryIds(memories),
                                   !.usedAtTryCompute =
                                       UsedPools(UsedByBurst(heap, memories)),
                                   !.runtimeNotifies = @ + 1,
                                   !.produced = IF fallback THEN @ ELSE res]
               ELSE /\ executionCallback' = executionCallback
                    /\ hist' = [Step("burst") EXCEPT
                                   !.fallback = fallback,
                                   !.memoryIds = MemoryIds(memories),
                                   !.usedAtTryCompute =
                                       UsedPools(UsedByBurst(heap, memories))]
            /\ pc' = IF NeedsBackend(TRUE, fallback) THEN "backend" ELSE "wait"
    /\ UNCHANGED otherVars
    /\ UNCHANGED <<device, config, inputs, outputs, callerBuffers, memories,
                   inputPointerArguments, outputPointerArguments, request,
                   synchronizationCallback, result, backend>>

\* Lines 450-456: executeSynchronously, then notify with its result.
DriverExecuteSynchronously ==
    /\ device = "driver" /\ pc = "backend" /\ config.syncExecHal
    /\ \E res \in BackendResults :
         \E fill \in FillsFor(res.status) :
            /\ heap' = DeviceWrites(heap, fill)
            /\ executionCallback' = Notify(executionCallback, res)
            /\ hist' = [Step("sync") EXCEPT
                           !.runtimeNotifies = @ + 1, !.produced = res]
    /\ pc' = "wait"
    /\ UNCHANGED otherVars
    /\ UNCHANGED <<device, config, inputs, outputs, callerBuffers, memories,
                   inputPointerArguments, outputPointerArguments, request,
                   synchronizationCallback, result, backend>>

\* What an asynchronous launch returns: a status, or a transport error
\* (Return<ErrorStatus>::isOk() false).
LaunchResults == ErrorStatus \cup {"TRANSPORT_ERROR"}

\* Line 469 testing the transport alone (mutant of LaunchFailed).
LaunchFailedTransportOnly(executeStatus) == executeStatus = "TRANSPORT_ERROR"

\* Line 469: !executeStatus.isOk() || executeStatus != ErrorStatus::NONE.
LaunchFailed(executeStatus) ==
    executeStatus = "TRANSPORT_ERROR" \/ executeStatus # "NONE"

\* Lines 457-474: asynchronous execute; a failed launch returns at once.
DriverExecuteAsynchronously ==
    /\ device = "driver" /\ pc = "backend" /\ ~config.syncExecHal
    /\ \E executeStatus \in LaunchResults :
         IF LaunchFailed(executeStatus)
         THEN /\ result' = IF executeStatus = "TRANSPORT_ERROR"
                           THEN ANEURALNETWORKS_OP_FAILED
                           ELSE convertErrorStatusToResultCode(executeStatus)
              /\ pc' = "done"
              /\ heap' = DestroyLocals(heap, {inputPointerArguments,
                                              outputPointerArguments})
              /\ backend' = backend
              /\ hist' = [Step("launchFailed") EXCEPT !.launch = executeStatus]
         ELSE /\ result' = result
              /\ pc' = "wait"
              /\ heap' = heap
              /\ backend' = [backend EXCEPT !.launched = TRUE]
              /\ hist' = [Step("async") EXCEPT !.launch = executeStatus]
    /\ UNCHANGED otherVars
    /\ UNCHANGED <<device, config, inputs, outputs, callerBuffers, memories,
                   inputPointerArguments, outputPointerArguments, request,
                   executionCallback, synchronizationCallback>>

\* The backend of a launched asynchronous execution calls the callback.
BackendNotify ==
    /\ device = "driver" /\ backend.launched
    /\ backend.notifies < MaxBackendNotifies
    /\ \E res \in BackendResults :
         \E fill \in (IF backend.notifies = 0 THEN FillsFor(res.status) ELSE {0}) :
            /\ heap' = DeviceWrites(heap, fill)
            /\ executionCallback' = Notify(executionCallback, res)
            /\ hist' = IF backend.notifies = 0
                       THEN [hist EXCEPT !.produced = res] ELSE hist
    /\ backend' = [backend EXCEPT !.notifies = @ + 1]
    /\ UNCHANGED otherVars
    /\ UNCHANGED <<device, config, pc, inputs, outputs, callerBuffers, memories,
                   inputPointerArguments, outputPointerArguments, request,
                   synchronizationCallback, result>>

\* Line 478: executionCallback->wait() returns once the signal is notified.
DriverWait ==
    /\ device = "driver" /\ pc = "wait"
    /\ executionCallback.notified
    /\ pc' = "interpret"
    /\ hist' = [Step("wait") EXCEPT
                   !.delivered = [status |-> executionCallback.status,
                                  outputShapes |-> executionCallback.outputShapes,
                                  timing |-> executionCallback.timing],
                   !.poolAtCompletion =
                       IF outputPointerArguments # 0
                       THEN heap[outputPointerArguments].data ELSE <<>>]
    /\ UNCHANGED otherVars
    /\ UNCHANGED <<device, config, inputs, outputs, callerBuffers, memories, heap,
                   inputPointerArguments, outputPointerArguments, request,
                   executionCallback, synchronizationCallback, result, backend>>

\* Lines 481-490 without the OUTPUT_INSUFFICIENT_SIZE case (mutant of
\* InterpretStatus).
InterpretStatusNoPartialSuccess(callbackStatus) ==
    IF callbackStatus # "NONE"
    THEN [returns |-> TRUE, handsBack |-> FALSE,
          code |-> convertErrorStatusToResultCode(callbackStatus)]
    ELSE [returns |-> FALSE, handsBack |-> FALSE, code |-> ANEURALNETWORKS_NO_ERROR]

\* Lines 481-490 with line 485 left out (mutant of InterpretStatus).
InterpretStatusKeepsSignal(callbackStatus) ==
    IF callbackStatus # "NONE"
    THEN IF callbackStatus = "OUTPUT_INSUFFICIENT_SIZE"
         THEN [returns |-> TRUE, handsBack |-> FALSE, code |-> ANEURALNETWORKS_NO_ERROR]
         ELSE [returns |-> TRUE, handsBack |-> FALSE,
               code |-> convertErrorStatusToResultCode(callbackStatus)]
    ELSE [returns |-> FALSE, handsBack |-> FALSE, code |-> ANEURALNETWORKS_NO_ERROR]

\* Lines 481-490 left out: every status goes on to the copy-out (mutant of
\* InterpretStatus).
InterpretStatusAlwaysCopies(callbackStatus) ==
    [returns |-> FALSE, handsBack |-> FALSE, code |-> ANEURALNETWORKS_NO_ERROR]

\* Lines 481-490: whether execute() returns on the delivered status, with
\* which code, and whether it hands the signal to the caller first.
InterpretStatus(callbackStatus) ==
    IF callbackStatus # "NONE"
    THEN IF callbackStatus = "OUTPUT_INSUFFICIENT_SIZE"
         THEN [returns |-> TRUE, handsBack |-> TRUE, code |-> ANEURALNETWORKS_NO_ERROR]
         ELSE [returns |-> TRUE, handsBack |-> FALSE,
               code |-> convertErrorStatusToResultCode(callbackStatus)]
    ELSE [returns |-> FALSE, handsBack |-> FALSE, code |-> ANEURALNETWORKS_NO_ERROR]

\* Lines 481-490: interpret the delivered status.
DriverInterpretStatus ==
    /\ device = "driver" /\ pc = "interpret"
    /\ LET i == InterpretStatus(executionCallback.status)
       IN  IF i.returns
           THEN /\ pc' = "done"
                /\ heap' = DestroyLocals(heap, {inputPointerArguments,
                                                outputPointerArguments})
                /\ synchronizationCallback' =
                      IF i.handsBack THEN "callback" ELSE synchronizationCallback
                /\ result' = i.code
           ELSE /\ pc' = "copyOut"
                /\ UNCHANGED <<heap, synchronizationCallback, result>>
    /\ hist' = Step("interpret")
    /\ UNCHANGED otherVars
    /\ UNCHANGED <<device, config, inputs, outputs, callerBuffers, memories,
                   inputPointerArguments, outputPointerArguments, request,
                   executionCallback, backend>>

\* Lines 492-508: copy the pointer outputs out of the output pool, return.
DriverCopyOutputs ==
    /\ device = "driver" /\ pc = "copyOut"
    /\ callerBuffers' =
         IF outputPointerArguments # 0
         THEN [callerBuffers EXCEPT !.out =
                 [i \in 1..Len(outputs) |->
                     IF outputs[i].state = POINTER
                     THEN MemcpyFromPool(callerBuffers.out[outputs[i].buffer],
                                         heap[outputPointerArguments].data,
                                         outputs[i].locationAndLength.offset,
                                         outputs[i].locationAndLength.length)
                     ELSE callerBuffers.out[i]]]
         ELSE callerBuffers
    /\ synchronizationCallback' = "callback"
    /\ result' = ANEURALNETWORKS_NO_ERROR
    /\ heap' = DestroyLocals(heap, {inputPointerArguments, outputPointerArguments})
    /\ pc' = "done"
    /\ hist' = Step("copyOut")
    /\ UNCHANGED otherVars
    /\ UNCHANGED <<device, config, inputs, outputs, memories,
                   inputPointerArguments, outputPointerArguments, request,
                   executionCallback, backend>>

(***************************************************************************)
(* CpuPreparedModel::execute and computeOnCpu.                             *)
(***************************************************************************)
\* A pool index that counts from one (mutant of NextRequestPoolIndex).
NextRequestPoolIndexOneBased(requestPoolInfos) == Len(requestPoolInfos) + 1

\* Lines 684-685: the index of the pool about to be appended,
\* requestPoolInfos.size().
NextRequestPoolIndex(requestPoolInfos) == Len(requestPoolInfos)

\* fixPointerArguments (lines 681-691) over the first k arguments: every
\* POINTER argument gets a request pool of its own over the caller's buffer.
RECURSIVE fixPointerArguments(_, _, _, _)
fixPointerArguments(argumentInfos, requestPoolInfos, side, k) ==
    IF k = 0 THEN [args |-> argumentInfos, pools |-> requestPoolInfos]
    ELSE LET before == fixPointerArguments(argumentInfos, requestPoolInfos, side, k - 1)
         IN  IF before.args[k].state = POINTER
             THEN [args  |-> [before.args EXCEPT
                                 ![k].locationAndLength.poolIndex =
                                     NextRequestPoolIndex(before.pools),
                                 ![k].locationAndLength.offset = Num(0)],
                   pools |-> Append(before.pools, <<"buffer", side, before.args[k].buffer>>)]
             ELSE before

\* Lines 654-679: create the signal, reset the out-parameter, map the
\* tracker's pools; a pool that cannot be mapped ends execute().
CpuMapPools ==
    /\ device = "cpu" /\ pc = "start"
    /\ executionCallback' = NewExecutionCallback
    /\ synchronizationCallback' = ResetCallback(synchronizationCallback)
    /\ \E mapped \in (IF Len(memories) = 0 THEN {TRUE} ELSE BOOLEAN) :
         IF mapped
         THEN /\ request' = [NoRequest EXCEPT
                                !.pools = [i \in 1..Len(memories) |-> <<"hidl", memories[i]>>]]
              /\ pc' = "fixPointers"
              /\ result' = result
         ELSE /\ request' = request
              /\ pc' = "done"
              /\ result' = ANEURALNETWORKS_UNMAPPABLE
    /\ hist' = Step("mapPools")
    /\ UNCHANGED otherVars
    /\ UNCHANGED <<device, config, inputs, outputs, callerBuffers, memories, heap,
                   inputPointerArguments, outputPointerArguments, backend>>

\* Lines 680-697: one pool per pointer argument, then the request.
CpuFixPointerArguments ==
    /\ device = "cpu" /\ pc = "fixPointers"
    /\ LET ins  == fixPointerArguments(inputs, request.pools, "in", Len(inputs))
           outs == fixPointerArguments(outputs, ins.pools, "out", Len(outputs))
       IN  /\ inputs' = ins.args
           /\ outputs' = outs.args
           /\ request' = [inputs  |-> setRequestArgumentArray(ins.args),
                          outputs |-> setRequestArgumentArray(outs.args),
                          pools   |-> outs.pools, built |-> TRUE]
    /\ pc' = "compute"
    /\ hist' = Step("fixPointers")
    /\ UNCHANGED otherVars
    /\ UNCHANGED <<device, config, callerBuffers, memories, heap,
                   inputPointerArguments, outputPointerArguments,
                   executionCallback, synchronizationCallback, result, backend>>

\* What CpuExecutor::run returns.
KernelCodes ==
    {ANEURALNETWORKS_NO_ERROR, ANEURALNETWORKS_BAD_DATA, ANEURALNETWORKS_OP_FAILED}

\* The kernel writes the pointer outputs in place: byte k of output i
\* becomes fill + 20 * i + k.
KernelWrites(buffers, fill) ==
    IF fill = 0 THEN buffers
    ELSE [buffers EXCEPT !.out =
            [i \in 1..Len(outputs) |->
                IF outputs[i].state = POINTER
                THEN [k \in 1..Len(buffers.out[i]) |-> fill + 20 * i + k]
                ELSE buffers.out[i]]]

\* A kernel run that leaves the signal alone (mutant of computeOnCpu).
computeOnCpuSilent(err, outputShapes) == executionCallback

\* computeOnCpu (lines 632-641): run the kernel, notify with its result.
computeOnCpu(err, outputShapes) ==
    Notify(executionCallback,
           [status |-> convertResultCodeToErrorStatus(err),
            outputShapes |-> outputShapes, timing |-> kNoTiming])

\* Lines 699-700, 708-709 with syncExecCpu: compute on the calling thread.
CpuComputeInline ==
    /\ device = "cpu" /\ pc = "compute" /\ config.syncExecCpu
    /\ \E err \in KernelCodes, outputShapes \in OutputShapesValues :
         \E fill \in (IF err = ANEURALNETWORKS_NO_ERROR THEN DeviceFills ELSE {0}) :
            /\ executionCallback' = computeOnCpu(err, outputShapes)
            /\ callerBuffers' = KernelWrites(callerBuffers, fill)
            /\ hist' = [Step("computeInline") EXCEPT
                           !.runtimeNotifies = @ + 1,
                           !.produced = [status |-> convertResultCodeToErrorStatus(err),
                                         outputShapes |-> outputShapes,
                                         timing |-> kNoTiming]]
    /\ synchronizationCallback' = "callback"
    /\ result' = ANEURALNETWORKS_NO_ERROR
    /\ pc' = "done"
    /\ UNCHANGED otherVars
    /\ UNCHANGED <<device, config, inputs, outputs, memories, heap,
                   inputPointerArguments, outputPointerArguments, request, backend>>

\* Lines 701-704 without syncExecCpu: start the worker thread; it runs from
\* here on, concurrently with the rest of execute().
CpuLaunchThread ==
    /\ device = "cpu" /\ pc = "compute" /\ ~config.syncExecCpu
    /\ backend' = [backend EXCEPT !.thread = "running"]
    /\ pc' = "bind"
    /\ hist' = Step("launchThread")
    /\ UNCHANGED otherVars
    /\ UNCHANGED <<device, config, inputs, outputs, callerBuffers, memories, heap,
                   inputPointerArguments, outputPointerArguments, request,
                   executionCallback, synchronizationCallback, result>>

\* Lines 705-709: bind the worker thread to the signal, hand the signal to
\* the caller, return.
CpuBindThread ==
    /\ device = "cpu" /\ pc = "bind"
    /\ backend' = [backend EXCEPT !.bound = TRUE]
    /\ synchronizationCallback' = "callback"
    /\ result' = ANEURALNETWORKS_NO_ERROR
    /\ pc' = "done"
    /\ hist' = Step("bindThread")
    /\ UNCHANGED otherVars
    /\ UNCHANGED <<device, config, inputs, outputs, callerBuffers, memories, heap,
                   inputPointerArguments, outputPointerArguments, request,
                   executionCallback>>

\* The worker thread runs computeOnCpu.
CpuWorkerCompute ==
    /\ device = "cpu" /\ backend.thread = "running"
    /\ \E err \in KernelCodes, outputShapes \in OutputShapesValues :
         \E fill \in (IF err = ANEURALNETWORKS_NO_ERROR THEN DeviceFills ELSE {0}) :
            /\ executionCallback' = computeOnCpu(err, outputShapes)
            /\ callerBuffers' = KernelWrites(callerBuffers, fill)
            /\ hist' = [hist EXCEPT
                           !.runtimeNotifies = @ + 1,
                           !.produced = [status |-> convertResultCodeToErrorStatus(err),
                                         outputShapes |-> outputShapes,
                                         timing |-> kNoTiming]]
    /\ backend' = [backend EXCEPT !.thread = "finished"]
    /\ UNCHANGED otherVars
    /\ UNCHANGED <<device, config, pc, inputs, outputs, memories, heap,
                   inputPointerArguments, outputPointerArguments, request,
                   synchronizationCallback, result>>

Next ==
    \/ DriverLayoutInputs
    \/ DriverLayoutOutputs
    \/ DriverCopyInputs
    \/ DriverBuildRequest
    \/ DriverBurstCompute
    \/ DriverExecuteSynchronously
    \/ DriverExecuteAsynchronously
    \/ BackendNotify
    \/ DriverWait
    \/ DriverInterpretStatus
    \/ DriverCopyOutputs
    \/ CpuMapPools
    \/ CpuFixPointerArguments
    \/ CpuComputeInline
    \/ CpuLaunchThread
    \/ CpuBindThread
    \/ CpuWorkerCompute

Spec == Init /\ [][Next]_vars

(***************************************************************************)
(* getSupportedOperations.  A query holds the graph's operation types, the *)
(* backend's answer (driver devices), the caller's vector before the call   *)
(* and, for a debuggable build with mSupported = 1, the operations whose    *)
(* hash accumulator is odd.                                                 *)
(***************************************************************************)
OperationTypes == {"ADD", "OEM_OPERATION", "EXTENSION"}

\* isExtensionOperationType: the type lies in the extension range.
isExtensionOperationType(operationType) == operationType = "EXTENSION"

\* hidl_vec::resize(n): the first n elements are kept, new ones are
\* value-initialized.
Resize(vec, n) == [i \in 1..n |-> IF i <= Len(vec) THEN vec[i] ELSE FALSE]

\* std::fill(begin, end, false).
FillFalse(vec) == [i \in 1..Len(vec) |-> FALSE]

\* DriverDevice::getSupportedOperations keeping the backend's vector
\* whatever its length (mutant of DriverSupportedOperations).
DriverSupportedOperationsUnchecked(out, count, status, supportedOperations, mSupported, oddHash) ==
    IF status # "NONE" THEN FillFalse(Resize(out, count)) ELSE supportedOperations

\* DriverDevice::getSupportedOperations with a debug filter that switches
\* the operations of odd accumulator on (mutant of
\* DriverSupportedOperations).
DriverSupportedOperationsSwitchingOn(out, count, status, supportedOperations, mSupported, oddHash) ==
    IF status # "NONE" THEN FillFalse(Resize(out, count))
    ELSE IF Len(supportedOperations) # count THEN FillFalse(Resize(out, count))
    ELSE IF mSupported # 1 THEN supportedOperations
    ELSE [i \in 1..count |-> supportedOperations[i] \/ i \in oddHash]

\* DriverDevice::getSupportedOperations (lines 191-254): the vector left in
\* *outSupportedOperations for a graph of count operations.  oddHash holds
\* the operations whose accumulator is odd (debuggable build).
DriverSupportedOperations(out, count, status, supportedOperations, mSupported, oddHash) ==
    IF status # "NONE" THEN FillFalse(Resize(out, count))
    ELSE IF Len(supportedOperations) # count THEN FillFalse(Resize(out, count))
    ELSE IF mSupported # 1 THEN supportedOperations
    ELSE [i \in 1..count |-> supportedOperations[i] /\ ~(i \in oddHash)]

\* CpuDevice::getSupportedOperations without the OEM_OPERATION test of line
\* 597 (mutant of CpuSupportedOperations).
CpuSupportedOperationsNoOem(operations) ==
    [i \in 1..Len(operations) |-> ~isExtensionOperationType(operations[i])]

\* CpuDevice::getSupportedOperations (lines 586-600).
CpuSupportedOperations(operations) ==
    [i \in 1..Len(operations) |->
        ~isExtensionOperationType(operations[i]) /\ operations[i] # "OEM_OPERATION"]

\* execute() is not running.
NoExecution ==
    /\ device = "none"
    /\ config = [burstController |-> FALSE, syncExecHal |-> FALSE, syncExecCpu |-> FALSE]
    /\ pc = "idle"
    /\ inputs = <<>> /\ outputs = <<>>
    /\ callerBuffers = [in |-> <<>>, out |-> <<>>]
    /\ memories = <<>> /\ heap = <<>>
    /\ inputPointerArguments = 0 /\ outputPointerArguments = 0
    /\ request = NoRequest
    /\ executionCallback = NewExecutionCallback
    /\ synchronizationCallback = "nullptr"
    /\ result = NotReturned
    /\ backend = [launched |-> FALSE, notifies |-> 0, thread |-> "none",
                  bound |-> FALSE]
    /\ hist = [steps |-> <<>>]

\* The calls of getSupportedOperations considered.
QueryCalls ==
    /\ \E n \in 0..MaxOperations :
         \/ \E ops \in [1..n -> OperationTypes], operands \in {"few", "many"} :
               query = [phase |-> "call", device |-> "cpu", operations |-> ops,
                        operands |-> operands,
                        status |-> "NONE", backendVector |-> <<>>,
                        mSupported |-> 0, oddHash |-> {},
                        out |-> <<TRUE>>]
         \/ \E status \in {"NONE", "GENERAL_FAILURE"},
               vec \in SeqsUpTo(BOOLEAN, MaxOperations + 1),
               before \in {<<>>, [i \in 1..(MaxOperations + 1) |-> TRUE]},
               dbg \in {<<0, {}>>} \cup {<<1, odd>> : odd \in SUBSET (1..n)} :
               query = [phase |-> "call", device |-> "driver",
                        operations |-> [i \in 1..n |-> "ADD"],
                        status |-> status, backendVector |-> vec,
                        mSupported |-> dbg[1], oddHash |-> dbg[2],
                        out |-> before]

InitQuery ==
    /\ NoExecution /\ compile = NoCompile /\ registry = NoDiscovery /\ NoRest
    /\ QueryCalls

DriverGetSupportedOperations ==
    /\ query.phase = "call" /\ query.device = "driver"
    /\ query' = [query EXCEPT
                    !.phase = "returned",
                    !.out = DriverSupportedOperations(query.out,
                                Len(query.operations),
                                query.status, query.backendVector,
                                query.mSupported, query.oddHash)]
    /\ UNCHANGED <<execVars, compile, registry, restVars>>

CpuGetSupportedOperations ==
    /\ query.phase = "call" /\ query.device = "cpu"
    /\ query' = [query EXCEPT !.phase = "returned",
                              !.out = CpuSupportedOperations(query.operations)]
    /\ UNCHANGED <<execVars, compile, registry, restVars>>

NextQuery == DriverGetSupportedOperations \/ CpuGetSupportedOperations

SpecQuery == InitQuery /\ [][NextQuery]_vars

(***************************************************************************)
(* The layout of one argument list: DriverLayoutInputs over wide lists.    *)
(***************************************************************************)
LayoutLengths == {Num(l) : l \in 0..MaxLen} \cup {HugeLength, NearMaxLength}

InitLayout ==
    /\ query = NoQuery /\ compile = NoCompile /\ registry = NoDiscovery /\ NoRest
    /\ device = "driver"
    /\ config = [burstController |-> FALSE, syncExecHal |-> TRUE, syncExecCpu |-> FALSE]
    /\ \E ik \in SeqsUpTo(ArgumentKinds(LayoutLengths), MaxLayoutArgs) :
         InitExecution(MakeArguments(ik), <<>>)

SpecLayout == InitLayout /\ [][DriverLayoutInputs]_vars

(***************************************************************************)
(* Compilation: prepareModel, prepareModelFromCache, CpuPreparedModel::     *)
(* create.  A call holds the entry point, the caller's output preparedModel *)
(* before the call, the backend's answer (driver) or the graph and the      *)
(* outcome of its validation and of the mapping of its pools (reference     *)
(* device).                                                                 *)
(***************************************************************************)
\* Graph memory pools and cache handles per list.
MaxPools == 2
MaxCacheHandles == 1

\* A previous PreparedModel in the caller's output.
StalePreparedModel == [kind |-> "stale"]
NullPreparedModel == [kind |-> "nullptr"]

\* std::make_shared<DriverPreparedModel>(preparedModel).
DriverPreparedModel(preparedModel) ==
    [kind |-> "DriverPreparedModel", mPreparedModel |-> preparedModel]

\* new CpuPreparedModel(std::move(hidlModel), std::move(poolInfos)).
CpuPreparedModel(model, poolInfos) ==
    [kind |-> "CpuPreparedModel", mModel |-> model, mModelPoolInfos |-> poolInfos]

\* prepareModelCheck without line 265 (mutant of prepareModelCheck).
prepareModelCheckNoReset(status, preparedModel, preparedModelOut) ==
    IF status # "NONE"
    THEN [n |-> ANEURALNETWORKS_OP_FAILED, out |-> preparedModelOut]
    ELSE IF preparedModel = 0
    THEN [n |-> ANEURALNETWORKS_OP_FAILED, out |-> preparedModelOut]
    ELSE [n |-> ANEURALNETWORKS_NO_ERROR, out |-> DriverPreparedModel(preparedModel)]

\* prepareModelCheck without lines 272-275 (mutant of prepareModelCheck).
prepareModelCheckTrustsStatus(status, preparedModel, preparedModelOut) ==
    IF status # "NONE"
    THEN [n |-> ANEURALNETWORKS_OP_FAILED, out |-> NullPreparedModel]
    ELSE [n |-> ANEURALNETWORKS_NO_ERROR,
          out |-> IF preparedModel = 0 THEN NullPreparedModel
                  ELSE DriverPreparedModel(preparedModel)]

\* prepareModelCheck (lines 260-279): the result code and the caller's
\* output after it.  preparedModel is the backend's handle, 0 for nullptr.
prepareModelCheck(status, preparedModel, preparedModelOut) ==
    IF status # "NONE"
    THEN [n |-> ANEURALNETWORKS_OP_FAILED, out |-> NullPreparedModel]
    ELSE IF preparedModel = 0
    THEN [n |-> ANEURALNETWORKS_OP_FAILED, out |-> NullPreparedModel]
    ELSE [n |-> ANEURALNETWORKS_NO_ERROR, out |-> DriverPreparedModel(preparedModel)]

\* setRunTimePoolInfosFromHidlMemories: one RunTimePoolInfo per pool of the
\* graph, or failure when a pool cannot be mapped.  pools[i] tells whether
\* pool i can be mapped.
setRunTimePoolInfosFromHidlMemories(pools) ==
    IF \A i \in 1..Len(pools) : pools[i]
    THEN [ok |-> TRUE, poolInfos |-> [i \in 1..Len(pools) |-> <<"mapped", i>>]]
    ELSE [ok |-> FALSE, poolInfos |-> <<>>]

\* CpuPreparedModel::create that skips the pools that cannot be mapped
\* (mutant of CpuPreparedModelCreate).
CpuPreparedModelCreateSkipping(hidlModel, preparedModelOut) ==
    [n |-> ANEURALNETWORKS_NO_ERROR,
     out |-> CpuPreparedModel(hidlModel,
                SelectSeq([i \in 1..Len(hidlModel.pools) |-> <<"mapped", i>>],
                          LAMBDA q : hidlModel.pools[q[2]]))]

\* CpuPreparedModel::create (lines 618-630).
CpuPreparedModelCreate(hidlModel, preparedModelOut) ==
    LET r == setRunTimePoolInfosFromHidlMemories(hidlModel.pools)
    IN  IF ~r.ok
        THEN [n |-> ANEURALNETWORKS_UNMAPPABLE, out |-> NullPreparedModel]
        ELSE [n |-> ANEURALNETWORKS_NO_ERROR,
              out |-> CpuPreparedModel(hidlModel, r.poolInfos)]

\* CpuDevice::prepareModel after its assertions (lines 609-615).
CpuDevicePrepareModel(hidlModel, preferenceValid, preparedModelOut) ==
    IF ~hidlModel.valid \/ ~preferenceValid
    THEN [n |-> ANEURALNETWORKS_OP_FAILED, out |-> NullPreparedModel]
    ELSE CpuPreparedModelCreate(hidlModel, NullPreparedModel)

\* The graphs handed to the reference device: an identity, whether
\* validateModel accepts it, and for each memory pool whether it maps.
HidlModels ==
    [id : {1, 2}, valid : BOOLEAN, pools : SeqsUpTo(BOOLEAN, MaxPools)]

EntryPoints ==
    {"DriverDevice::prepareModel", "DriverDevice::prepareModelFromCache",
     "CpuDevice::prepareModel", "CpuDevice::prepareModelFromCache",
     "CpuPreparedModel::create"}

NoBackendAnswer == [status |-> "NONE", preparedModel |-> 0]
NoGraph == [id |-> 0, valid |-> FALSE, pools |-> <<>>]

\* The calls of the compile entry points considered.
CompileCalls ==
    /\ \E entry \in EntryPoints, before \in {NullPreparedModel, StalePreparedModel} :
         \/ /\ entry \in {"DriverDevice::prepareModel",
                          "DriverDevice::prepareModelFromCache"}
            /\ \E status \in ErrorStatus, handle \in 0..1 :
                  compile = [phase |-> "call", entry |-> entry, out |-> before,
                             before |-> before,
                             n |-> NotReturned,
                             answer |-> [status |-> status, preparedModel |-> handle],
                             hidlModel |-> NoGraph, preferenceValid |-> TRUE,
                             modelCache |-> 0, dataCache |-> 0]
         \/ /\ entry \in {"CpuDevice::prepareModel", "CpuDevice::prepareModelFromCache"}
            /\ \E m \in HidlModels, pref \in BOOLEAN,
                  mc \in 0..MaxCacheHandles, dc \in 0..MaxCacheHandles :
                  compile = [phase |-> "call", entry |-> entry, out |-> before,
                             before |-> before,
                             n |-> NotReturned, answer |-> NoBackendAnswer,
                             hidlModel |-> m, preferenceValid |-> pref,
                             modelCache |-> mc, dataCache |-> dc]
         \/ /\ entry = "CpuPreparedModel::create"
            /\ \E m \in HidlModels :
                  compile = [phase |-> "call", entry |-> entry, out |-> before,
                             before |-> before,
                             n |-> NotReturned, answer |-> NoBackendAnswer,
                             hidlModel |-> m, preferenceValid |-> TRUE,
                             modelCache |-> 0, dataCache |-> 0]

InitCompile ==
    /\ NoExecution /\ query = NoQuery /\ registry = NoDiscovery /\ NoRest
    /\ CompileCalls

\* A call returns n and leaves out in the caller's output.
CompileReturns(r) ==
    compile' = [compile EXCEPT !.phase = "returned", !.n = r.n, !.out = r.out]

\* A CHECK fails: LOG(FATAL) aborts the process; nothing is returned and the
\* caller's output is as it was.
CompileAborts == compile' = [compile EXCEPT !.phase = "aborted"]

\* DriverDevice::prepareModel (lines 281-292).
DriverDevicePrepareModel ==
    /\ compile.phase = "call" /\ compile.entry = "DriverDevice::prepareModel"
    /\ CompileReturns(prepareModelCheck(compile.answer.status,
                                        compile.answer.preparedModel, compile.out))
    /\ UNCHANGED <<execVars, query, registry, restVars>>

\* DriverDevice::prepareModelFromCache (lines 294-306).
DriverDevicePrepareModelFromCache ==
    /\ compile.phase = "call" /\ compile.entry = "DriverDevice::prepareModelFromCache"
    /\ CompileReturns(prepareModelCheck(compile.answer.status,
                                        compile.answer.preparedModel, compile.out))
    /\ UNCHANGED <<execVars, query, registry, restVars>>

\* CpuDevice::prepareModel (lines 602-616).
CpuDevicePrepareModelCall ==
    /\ compile.phase = "call" /\ compile.entry = "CpuDevice::prepareModel"
    /\ IF compile.modelCache = 0 /\ compile.dataCache = 0
       THEN CompileReturns(CpuDevicePrepareModel(compile.hidlModel,
                                                 compile.preferenceValid, compile.out))
       ELSE CompileAborts
    /\ UNCHANGED <<execVars, query, registry, restVars>>

\* CpuDevice::prepareModelFromCache compiling the graph like prepareModel
\* (mutant of CpuDevicePrepareModelFromCache).
CpuDevicePrepareModelFromCacheCompiles ==
    /\ compile.phase = "call" /\ compile.entry = "CpuDevice::prepareModelFromCache"
    /\ CompileReturns(CpuDevicePrepareModel(compile.hidlModel,
                                            compile.preferenceValid, compile.out))
    /\ UNCHANGED <<execVars, query, registry, restVars>>

\* CpuDevice::prepareModelFromCache (lines 543-547): CHECK(false).
CpuDevicePrepareModelFromCache ==
    /\ compile.phase = "call" /\ compile.entry = "CpuDevice::prepareModelFromCache"
    /\ CompileAborts
    /\ UNCHANGED <<execVars, query, registry, restVars>>

\* CpuPreparedModel::create called on its own (lines 618-630).
CpuPreparedModelCreateCall ==
    /\ compile.phase = "call" /\ compile.entry = "CpuPreparedModel::create"
    /\ CompileReturns(CpuPreparedModelCreate(compile.hidlModel, compile.out))
    /\ UNCHANGED <<execVars, query, registry, restVars>>

NextCompile ==
    \/ DriverDevicePrepareModel
    \/ DriverDevicePrepareModelFromCache
    \/ CpuDevicePrepareModelCall
    \/ CpuDevicePrepareModelFromCache
    \/ CpuPreparedModelCreateCall

SpecCompile == InitCompile /\ [][NextCompile]_vars

(***************************************************************************)
(* DeviceManager: discovery of the devices (findAvailableDevices,          *)
(* registerDevice, DriverDevice::initialize) and the reference device      *)
(* singleton (CpuDevice::get, getCpuDevice).                               *)
(***************************************************************************)
\* Advertised driver names and calls of getCpuDevice.
MaxNames == 2
MaxGetCalls == 2
\* Things that fail in the service behind one name.
MaxFailures == 1

QueryStatus == {"NONE", "GENERAL_FAILURE"}

\* Constant::MAX_NUMBER_OF_CACHE_FILES of the HAL, compared at lines 176-177.
MAX_NUMBER_OF_CACHE_FILES == 32

\* CpuDevice::kName (line 552) and CpuDevice::kNumCacheFiles (lines 558-559).
kName == "nnapi-reference"
kNumCacheFiles == <<0, 0>>

\* The names a service can be advertised under.
AdvertisedNames == {"sample-driver", kName}

\* The counts a backend can report: none, one, the maximum, above it.
ReportedCounts ==
    {0, 1, MAX_NUMBER_OF_CACHE_FILES, MAX_NUMBER_OF_CACHE_FILES + 1}

\* What the service behind one advertised name does: its name, whether
\* getService and VersionedIDevice::create give an object, the status of
\* each query of initialize(), and the pair of counts that comes with the
\* answer of getNumberOfCacheFilesNeeded.
AllDriverBehaviours ==
    [mName : AdvertisedNames, handle : BOOLEAN, interface : BOOLEAN,
     capabilities : QueryStatus, versionString : QueryStatus,
     supportedExtensions : QueryStatus, numberOfCacheFilesNeeded : QueryStatus,
     reported : ReportedCounts \X ReportedCounts]

Failures(b) ==
    (IF b.handle THEN 0 ELSE 1) + (IF b.interface THEN 0 ELSE 1)
    + (IF b.capabilities = "NONE" THEN 0 ELSE 1)
    + (IF b.versionString = "NONE" THEN 0 ELSE 1)
    + (IF b.supportedExtensions = "NONE" THEN 0 ELSE 1)
    + (IF b.numberOfCacheFilesNeeded = "NONE" THEN 0 ELSE 1)

\* The services considered by discovery: at most MaxFailures things fail,
\* and a service that answers asks for one file of each kind.
DriverBehaviours ==
    {b \in AllDriverBehaviours : Failures(b) <= MaxFailures /\ b.reported = <<1, 1>>}

\* initialize() that also rejects a device whose cache-file-count query
\* fails (mutant of initialize).
initializeStrict(b) ==
    /\ b.interface
    /\ b.capabilities = "NONE"
    /\ b.versionString = "NONE"
    /\ b.supportedExtensions = "NONE"
    /\ b.numberOfCacheFilesNeeded = "NONE"

\* DriverDevice::initialize (lines 133-185): its return value.
initialize(b) ==
    /\ b.interface
    /\ b.capabilities = "NONE"
    /\ b.versionString = "NONE"
    /\ b.supportedExtensions = "NONE"

\* mNumCacheFiles that resets only the count that is out of range (mutant
\* of NumCacheFiles).
NumCacheFilesPerCount(b) ==
    IF b.numberOfCacheFilesNeeded # "NONE" THEN <<0, 0>>
    ELSE <<IF b.reported[1] > MAX_NUMBER_OF_CACHE_FILES THEN 0 ELSE b.reported[1],
           IF b.reported[2] > MAX_NUMBER_OF_CACHE_FILES THEN 0 ELSE b.reported[2]>>

\* mNumCacheFiles after initialize (lines 169-183): the reported pair,
\* replaced by {0, 0} when the query failed and then when either count is
\* above the maximum.
NumCacheFiles(b) ==
    LET answered == IF b.numberOfCacheFilesNeeded # "NONE" THEN <<0, 0>>
                    ELSE b.reported
    IN  IF \/ answered[1] > MAX_NUMBER_OF_CACHE_FILES
           \/ answered[2] > MAX_NUMBER_OF_CACHE_FILES
        THEN <<0, 0>>
        ELSE answered

\* Device::isCachingSupported (lines 53-57).
isCachingSupported(pair) == pair[1] > 0 \/ pair[2] > 0

\* registerDevice (lines 756-761): mDevices after it; name is the position
\* of the advertisement, mName the device's name.
registerDevice(mDevices, name, b) ==
    IF initialize(b)
    THEN Append(mDevices, [kind |-> "driver", name |-> name, mName |-> b.mName,
                           mVersionString |-> "version of the driver",
                           mCapabilities |-> "capabilities of the driver",
                           mSupportedExtensions |-> "extensions of the driver",
                           mNumCacheFiles |-> NumCacheFiles(b)])
    ELSE mDevices

\* CpuDevice::get with a new instance for every call (mutant of CpuDeviceGet).
CpuDeviceGetFresh(r) ==
    [instance |-> r.created + 1, created |-> r.created + 1,
     cpuInstance |-> r.created + 1]

\* CpuDevice::get (lines 516-519): the function-local static is constructed
\* by the first call; every call returns it.
CpuDeviceGet(r) ==
    IF r.cpuInstance = 0
    THEN [instance |-> r.created + 1, created |-> r.created + 1,
          cpuInstance |-> r.created + 1]
    ELSE [instance |-> r.cpuInstance, created |-> r.created,
          cpuInstance |-> r.cpuInstance]

\* The registry entry of the reference device (class CpuDevice).
CpuEntry(instance) ==
    [kind |-> "cpu", instance |-> instance, mName |-> kName,
     mVersionString |-> "build number",
     mCapabilities |-> "kPerformance",
     mSupportedExtensions |-> "no extensions",
     mNumCacheFiles |-> kNumCacheFiles]

InitDiscovery ==
    /\ NoExecution /\ query = NoQuery /\ compile = NoCompile /\ NoRest
    /\ \E manager \in BOOLEAN :
         \E names \in (IF manager THEN SeqsUpTo(DriverBehaviours, MaxNames)
                       ELSE {<<>>}) :
            registry = [phase |-> "start", manager |-> manager, names |-> names,
                        pos |-> 1, mDevices |-> <<>>, mDevicesCpuOnly |-> <<>>,
                        cpuInstance |-> 0, created |-> 0, returned |-> <<>>]

\* Lines 728-738: open the service manager; without one, return.
FindOpenServiceManager ==
    /\ registry.phase = "start"
    /\ registry' = [registry EXCEPT
                       !.phase = IF registry.manager THEN "listing" ELSE "constructed"]
    /\ UNCHANGED <<execVars, query, compile, restVars>>

\* Lines 740-748: one advertised name: getService, registerDevice.
FindRegisterNext ==
    /\ registry.phase = "listing" /\ registry.pos <= Len(registry.names)
    /\ LET b == registry.names[registry.pos]
       IN  registry' = [registry EXCEPT
                           !.pos = @ + 1,
                           !.mDevices = IF b.handle
                                        THEN registerDevice(@, registry.pos, b)
                                        ELSE @]
    /\ UNCHANGED <<execVars, query, compile, restVars>>

\* Lines 751-753: register the CPU fallback device.
FindRegisterCpu ==
    /\ registry.phase = "listing" /\ registry.pos > Len(registry.names)
    /\ LET g1 == CpuDeviceGet(registry)
           g2 == CpuDeviceGet([registry EXCEPT !.created = g1.created,
                                               !.cpuInstance = g1.cpuInstance])
       IN  registry' = [registry EXCEPT
                           !.phase = "constructed",
                           !.mDevices = Append(@, CpuEntry(g1.instance)),
                           !.mDevicesCpuOnly = Append(@, CpuEntry(g2.instance)),
                           !.created = g2.created,
                           !.cpuInstance = g2.cpuInstance]
    /\ UNCHANGED <<execVars, query, compile, restVars>>

\* DeviceManager::getCpuDevice (lines 717-719), at any time.
GetCpuDevice ==
    /\ registry.phase # "none"
    /\ Len(registry.returned) < MaxGetCalls
    /\ LET g == CpuDeviceGet(registry)
       IN  registry' = [registry EXCEPT
                           !.returned = Append(@, g.instance),
                           !.created = g.created,
                           !.cpuInstance = g.cpuInstance]
    /\ UNCHANGED <<execVars, query, compile, restVars>>

NextDiscovery ==
    \/ FindOpenServiceManager
    \/ FindRegisterNext
    \/ FindRegisterCpu
    \/ GetCpuDevice

SpecDiscovery == InitDiscovery /\ [][NextDiscovery]_vars

\* Registration of one device, for every behaviour of its service.
InitInitialize ==
    /\ NoExecution /\ query = NoQuery /\ compile = NoCompile /\ NoRest
    /\ \E b \in AllDriverBehaviours :
          registry = [phase |-> "listing", manager |-> TRUE, names |-> <<b>>,
                      pos |-> 1, mDevices |-> <<>>, mDevicesCpuOnly |-> <<>>,
                      cpuInstance |-> 0, created |-> 0, returned |-> <<>>]

NextInitialize ==
    \/ FindRegisterNext
    \/ FindRegisterCpu

SpecInitialize == InitInitialize /\ [][NextInitialize]_vars

(***************************************************************************)
(* DeviceManager::get (lines 712-715): the function-local static manager,  *)
(* constructed by the first caller (DeviceManager::DeviceManager, lines    *)
(* 763-776), with several threads calling.                                 *)
(***************************************************************************)
MaxThreads == 3

Threads == 1..MaxThreads

NotSeen == [phase |-> "none", mDevices |-> <<>>]

\* The services discovery meets under get(): every query answers, or
\* getService gives no handle.
SingletonBehaviours ==
    {b \in DriverBehaviours :
        b.mName = "sample-driver" /\ (Failures(b) = 0 \/ ~b.handle)}

\* A static local without the initialization guard: a caller that finds the
\* construction started goes on (mutant of StaticLocal).
StaticLocalUnguarded(phase) ==
    IF phase = "none" THEN "construct" ELSE "return"

\* `static DeviceManager manager;` (line 713): what a caller reaching the
\* declaration does: the first one constructs, one that arrives while the
\* constructor runs waits for it, a later one goes on.
StaticLocal(phase) ==
    CASE phase = "none" -> "construct"
      [] phase \in {"start", "listing"} -> "wait"
      [] OTHER -> "return"

\* `return &manager;` (line 714) by thread t: the address, and what the
\* thread finds in the registry.
ReturnManager(c, t) ==
    [c EXCEPT !.pc[t] = "returned",
              !.got[t] = c.constructions,
              !.seen[t] = [phase |-> registry.phase, mDevices |-> registry.mDevices]]

InitSingleton ==
    /\ NoExecution /\ query = NoQuery /\ compile = NoCompile
    /\ registry = NoDiscovery
    /\ access = [phase |-> "none"] /\ owners = [phase |-> "none"]
    /\ api = [phase |-> "none"]
    /\ \E manager \in BOOLEAN :
         \E names \in (IF manager THEN SeqsUpTo(SingletonBehaviours, MaxNames)
                       ELSE {<<>>}) :
            callers = [phase |-> "threads",
                       pc |-> [t \in Threads |-> "idle"],
                       environment |-> [manager |-> manager, names |-> names],
                       constructions |-> 0,
                       waited |-> [t \in Threads |-> FALSE],
                       got |-> [t \in Threads |-> 0],
                       seen |-> [t \in Threads |-> NotSeen]]

\* Thread t calls DeviceManager::get() and reaches line 713.
GetEnter ==
    /\ callers.phase = "threads"
    /\ \E t \in Threads :
         /\ callers.pc[t] = "idle"
         /\ LET todo == StaticLocal(registry.phase)
            IN  CASE todo = "construct" ->
                       /\ registry' = [phase |-> "start",
                                       manager |-> callers.environment.manager,
                                       names |-> callers.environment.names,
                                       pos |-> 1, mDevices |-> <<>>,
                                       mDevicesCpuOnly |-> <<>>,
                                       cpuInstance |-> 0, created |-> 0,
                                       returned |-> <<>>]
                       /\ callers' = [callers EXCEPT !.pc[t] = "constructing",
                                                     !.constructions = @ + 1]
                  [] todo = "wait" ->
                       /\ callers' = [callers EXCEPT !.pc[t] = "blocked",
                                                     !.waited[t] = TRUE]
                       /\ UNCHANGED registry
                  [] OTHER ->
                       /\ callers' = ReturnManager(callers, t)
                       /\ UNCHANGED registry
    /\ UNCHANGED <<execVars, query, compile, access, owners, api>>

\* The constructor has finished: the constructing thread and the threads
\* waiting at line 713 go on to line 714.
GetReturn ==
    /\ callers.phase = "threads"
    /\ registry.phase = "constructed"
    /\ \E t \in Threads :
         /\ callers.pc[t] \in {"constructing", "blocked"}
         /\ callers' = ReturnManager(callers, t)
    /\ UNCHANGED <<execVars, query, compile, registry, access, owners, api>>

NextSingleton ==
    \/ GetEnter
    \/ FindOpenServiceManager
    \/ FindRegisterNext
    \/ FindRegisterCpu
    \/ GetReturn

SpecSingleton == InitSingleton /\ [][NextSingleton]_vars

(***************************************************************************)
(* The registered devices in use: the accessors of class DriverDevice      *)
(* (lines 60-107) and class CpuDevice (lines 513-560), and the calls of    *)
(* getSupportedOperations, prepareModel, prepareModelFromCache and         *)
(* execute, after the DeviceManager was constructed.                       *)
(***************************************************************************)
MaxCalls == 2

\* The devices registered for the first k advertised names (the loop of
\* lines 740-748).
RECURSIVE RegisterAll(_, _)
RegisterAll(names, k) ==
    IF k = 0 THEN <<>>
    ELSE IF names[k].handle
         THEN registerDevice(RegisterAll(names, k - 1), k, names[k])
         ELSE RegisterAll(names, k - 1)

\* The DeviceManager after its constructor, with a service manager that
\* listed names.
ConstructedRegistry(names) ==
    [phase |-> "constructed", manager |-> TRUE, names |-> names,
     pos |-> Len(names) + 1,
     mDevices |-> Append(RegisterAll(names, Len(names)), CpuEntry(1)),
     mDevicesCpuOnly |-> <<CpuEntry(1)>>,
     cpuInstance |-> 1, created |-> 1, returned |-> <<>>]

\* A service whose every query answers.
WorkingDriver ==
    [mName |-> "sample-driver", handle |-> TRUE, interface |-> TRUE,
     capabilities |-> "NONE", versionString |-> "NONE",
     supportedExtensions |-> "NONE", numberOfCacheFilesNeeded |-> "NONE",
     reported |-> <<1, 1>>]

Accessors ==
    {"getName", "getVersionString", "getSupportedExtensions", "getPerformance",
     "getNumberOfCacheFilesNeeded", "isCachingSupported"}

\* What an accessor of device d returns (lines 67-83, 53-57 and 521-537).
AccessorValue(d, accessor) ==
    CASE accessor = "getName" -> d.mName
      [] accessor = "getVersionString" -> d.mVersionString
      [] accessor = "getSupportedExtensions" -> d.mSupportedExtensions
      [] accessor = "getPerformance" -> d.mCapabilities
      [] accessor = "getNumberOfCacheFilesNeeded" -> d.mNumCacheFiles
      [] OTHER -> isCachingSupported(d.mNumCacheFiles)

InitDeviceUse ==
    /\ callers = NoCallers /\ owners = [phase |-> "none"] /\ api = [phase |-> "none"]
    /\ registry = ConstructedRegistry(<<WorkingDriver>>)
    /\ \/ /\ ExecutionCalls /\ query = NoQuery /\ compile = NoCompile
          /\ access = [phase |-> "none"]
       \/ /\ NoExecution /\ QueryCalls /\ compile = NoCompile
          /\ access = [phase |-> "none"]
       \/ /\ NoExecution /\ query = NoQuery /\ CompileCalls
          /\ access = [phase |-> "none"]
       \/ /\ NoExecution /\ query = NoQuery /\ compile = NoCompile
          /\ access = [phase |-> "calls", log |-> <<>>]

\* An accessor that hands the member out by moving it, which leaves the
\* device's member empty (mutant of DeviceAccessor).
DeviceAccessorMoving ==
    /\ access.phase = "calls" /\ Len(access.log) < MaxCalls
    /\ \E i \in 1..Len(registry.mDevices), accessor \in Accessors :
         /\ access' = [access EXCEPT !.log = Append(@,
                          [device |-> i, accessor |-> accessor,
                           value |-> AccessorValue(registry.mDevices[i], accessor)])]
         /\ registry' = [registry EXCEPT
                            !.mDevices[i].mName =
                                IF accessor = "getName" THEN "" ELSE @]
    /\ UNCHANGED <<execVars, query, compile, callers, owners, api>>

\* One call of a const accessor of a registered device.
DeviceAccessor ==
    /\ access.phase = "calls" /\ Len(access.log) < MaxCalls
    /\ \E i \in 1..Len(registry.mDevices), accessor \in Accessors :
         access' = [access EXCEPT !.log = Append(@,
                       [device |-> i, accessor |-> accessor,
                        value |-> AccessorValue(registry.mDevices[i], accessor)])]
    /\ UNCHANGED <<execVars, query, compile, registry, callers, owners, api>>

NextDeviceUse ==
    \/ DeviceAccessor
    \/ NextQuery
    \/ NextCompile
    \/ Next

SpecDeviceUse == InitDeviceUse /\ [][NextDeviceUse]_vars

(***************************************************************************)
(* Who keeps what alive around one execute(): the caller's reference to    *)
(* the PreparedModel, the references to the completion signal, and the     *)
(* threads that wait on the signal.                                        *)
(***************************************************************************)
MaxWaiters == 2

WaiterThreads == 1..MaxWaiters

\* The worker thread is given the sp<ExecutionCallback> by value (lines
\* 702-704): it holds a counted reference with no regard to the caller
\* (mutant of ThreadHoldsCallback: the signal passed by reference).
ThreadBorrowsCallback == FALSE

\* The worker thread is given the sp<ExecutionCallback> by value (lines
\* 702-704): it holds a counted reference while computeOnCpu runs.
ThreadHoldsCallback == backend.thread = "running"

\* execute()'s local sp<ExecutionCallback> (lines 412 and 668), until return.
LocalHoldsCallback == pc # "done"

\* The reference execute() hands to the caller (lines 481-508, 708), until
\* the caller releases it.
CallerHoldsCallback ==
    synchronizationCallback = "callback" /\ ~owners.callbackReleased

\* The reference count of the completion signal is above zero.
CallbackAlive == LocalHoldsCallback \/ ThreadHoldsCallback \/ CallerHoldsCallback

\* The worker thread is given mModel and mModelPoolInfos by std::cref (lines
\* 702-703): references into the CpuPreparedModel, no share in its ownership.
ThreadHoldsModel == FALSE

\* The PreparedModel has an owner left.
PreparedModelAlive == ~owners.modelReleased \/ ThreadHoldsModel

\* ExecutionCallback::wait returning at once without looking at the state
\* of the signal (mutant of WaitReturns).
WaitReturnsAlways(cb) == TRUE

\* ExecutionCallback::wait returns when the signal has been notified.
WaitReturns(cb) == cb.notified

InitLifetime ==
    /\ query = NoQuery /\ compile = NoCompile /\ registry = NoDiscovery
    /\ callers = NoCallers /\ access = [phase |-> "none"] /\ api = [phase |-> "none"]
    /\ owners = [phase |-> "handles", modelReleased |-> FALSE,
                 callbackReleased |-> FALSE,
                 wait |-> [t \in WaiterThreads |-> "idle"],
                 blocked |-> [t \in WaiterThreads |-> FALSE],
                 got |-> [t \in WaiterThreads |-> "none"]]
    /\ \E d \in {"driver", "cpu"} :
         /\ device = d
         /\ config \in IF d = "driver"
                       THEN [burstController : BOOLEAN, syncExecHal : BOOLEAN,
                             syncExecCpu : {FALSE}]
                       ELSE [burstController : {FALSE}, syncExecHal : {FALSE},
                             syncExecCpu : BOOLEAN]
    /\ \E ik \in SeqsUpTo(ArgumentKinds({Num(4)}), 1),
          ok \in SeqsUpTo(ArgumentKinds({Num(4)}), 1) :
          InitExecution(MakeArguments(ik), MakeArguments(ok))

\* The caller drops its std::shared_ptr<PreparedModel> after execute()
\* has returned.
ReleasePreparedModel ==
    /\ owners.phase = "handles" /\ pc = "done"
    /\ ~owners.modelReleased
    /\ owners' = [owners EXCEPT !.modelReleased = TRUE]
    /\ UNCHANGED <<execVars, query, compile, registry, callers, access, api>>

\* The caller drops the sp<ExecutionCallback> execute() handed back, while
\* none of its threads is inside wait().
ReleaseCallback ==
    /\ owners.phase = "handles" /\ CallerHoldsCallback
    /\ \A t \in WaiterThreads : owners.wait[t] # "blocked"
    /\ owners' = [owners EXCEPT !.callbackReleased = TRUE]
    /\ UNCHANGED <<execVars, query, compile, registry, callers, access, api>>

\* A thread of the caller calls wait() on the signal handed back.
WaitCall ==
    /\ owners.phase = "handles" /\ CallerHoldsCallback
    /\ \E t \in WaiterThreads :
         /\ owners.wait[t] = "idle"
         /\ owners' = IF WaitReturns(executionCallback)
                      THEN [owners EXCEPT !.wait[t] = "released",
                                          !.got[t] = executionCallback.status]
                      ELSE [owners EXCEPT !.wait[t] = "blocked",
                                          !.blocked[t] = TRUE]
    /\ UNCHANGED <<execVars, query, compile, registry, callers, access, api>>

\* A thread blocked in wait() is released.
WaitWake ==
    /\ owners.phase = "handles"
    /\ \E t \in WaiterThreads :
         /\ owners.wait[t] = "blocked"
         /\ WaitReturns(executionCallback)
         /\ owners' = [owners EXCEPT !.wait[t] = "released",
                                     !.got[t] = executionCallback.status]
    /\ UNCHANGED <<execVars, query, compile, registry, callers, access, api>>

NextLifetime ==
    \/ Next
    \/ ReleasePreparedModel
    \/ ReleaseCallback
    \/ WaitCall
    \/ WaitWake

SpecLifetime == InitLifetime /\ [][NextLifetime]_vars

\* A thread blocked in wait() on a notified signal gets to run.
SpecLifetimeFair == SpecLifetime /\ WF_vars(WaitWake)

(***************************************************************************)
(* The life of one model and of one compilation made from it, as the       *)
(* public API shows it: ANeuralNetworksModel_*, _Compilation_create,       *)
(* _Compilation_finish and _Execution_create.  The builders behind these   *)
(* entry points are outside the sources at hand; the states and the result *)
(* codes are those the validation tests and the header require.            *)
(***************************************************************************)
MaxOperands == 2
MaxModelOperations == 1
MaxApiCalls == 10

ModifyingCalls ==
    {"addOperand", "setOperandValue", "setOperandValueFromMemory", "addOperation",
     "identifyInputsAndOutputs", "relaxComputationFloat32toFloat16", "finish"}

NewModel ==
    [operands |-> 0, values |-> {}, operations |-> 0, identified |-> FALSE,
     relaxed |-> FALSE, completed |-> FALSE, invalid |-> FALSE]

NoCompilation ==
    [created |-> FALSE, explicitDevices |-> FALSE, preference |-> "default",
     caching |-> FALSE, finished |-> FALSE, planValid |-> FALSE]

Preferences == {"PREFER_LOW_POWER", "PREFER_FAST_SINGLE_ANSWER"}

\* The execution the calls act on: not created, created, computing, or
\* finished with the computation's result code.
NoExecutionBuilder == [state |-> "none", status |-> ANEURALNETWORKS_NO_ERROR]

\* The model of the validation tests has one output, a tensor of
\* dimensions {1}.
OutputDimensions == <<<<1>>>>
OutputIndices == {0, 1, 999}

InitApi ==
    /\ NoExecution /\ query = NoQuery /\ compile = NoCompile
    /\ registry = NoDiscovery
    /\ callers = NoCallers
    /\ access = [phase |-> "none"] /\ owners = [phase |-> "none"]
    /\ api = [phase |-> "api", model |-> NewModel, compilation |-> NoCompilation,
              executions |-> 0, calls |-> 0,
              execution |-> NoExecutionBuilder, index |-> 0, out |-> <<>>,
              last |-> [call |-> "create", result |-> ANEURALNETWORKS_NO_ERROR]]

\* A model that never refuses a change (mutant of badState).
badStateNever(m) == FALSE

\* The model has been finished, with or without success: it takes no
\* further change.
badState(m) == m.completed \/ m.invalid

\* One call of the API: its name, its result, the model and the
\* compilation after it.
ApiCall(name, n, m, c) ==
    /\ api.phase = "api" /\ api.calls < MaxApiCalls
    /\ api' = [api EXCEPT !.calls = @ + 1,
                          !.last = [call |-> name, result |-> n],
                          !.model = m, !.compilation = c,
                          !.index = 0, !.out = <<>>,
                          !.execution =
                              IF name = "Execution_create"
                                 /\ n = ANEURALNETWORKS_NO_ERROR
                              THEN [NoExecutionBuilder EXCEPT !.state = "created"]
                              ELSE @,
                          !.executions =
                              IF name = "Execution_create"
                                 /\ n = ANEURALNETWORKS_NO_ERROR
                              THEN @ + 1 ELSE @]
    /\ UNCHANGED <<execVars, query, compile, registry, callers, access, owners>>

\* A call that changes the model: refused with BAD_STATE on a finished
\* model, with BAD_DATA for arguments that do not validate.
ModelCall(name, valid, m) ==
    IF badState(api.model)
    THEN ApiCall(name, ANEURALNETWORKS_BAD_STATE, api.model, api.compilation)
    ELSE IF ~valid
    THEN ApiCall(name, ANEURALNETWORKS_BAD_DATA, api.model, api.compilation)
    ELSE ApiCall(name, ANEURALNETWORKS_NO_ERROR, m, api.compilation)

ModelAddOperand ==
    \E valid \in BOOLEAN :
       ModelCall("addOperand", valid /\ api.model.operands < MaxOperands,
                 [api.model EXCEPT !.operands = @ + 1])

ModelSetOperandValue ==
    \E index \in 0..MaxOperands, valid \in BOOLEAN :
       ModelCall("setOperandValue", valid /\ index < api.model.operands,
                 [api.model EXCEPT !.values = @ \cup {index}])

ModelSetOperandValueFromMemory ==
    \E index \in 0..MaxOperands, valid \in BOOLEAN :
       ModelCall("setOperandValueFromMemory", valid /\ index < api.model.operands,
                 [api.model EXCEPT !.values = @ \cup {index}])

ModelAddOperation ==
    \E valid \in BOOLEAN :
       ModelCall("addOperation",
                 /\ valid /\ api.model.operands > 0
                 /\ api.model.operations < MaxModelOperations,
                 [api.model EXCEPT !.operations = @ + 1])

ModelIdentifyInputsAndOutputs ==
    \E valid \in BOOLEAN :
       ModelCall("identifyInputsAndOutputs", valid /\ api.model.operands > 0,
                 [api.model EXCEPT !.identified = TRUE])

ModelRelaxComputationFloat32toFloat16 ==
    \E allow \in BOOLEAN :
       ModelCall("relaxComputationFloat32toFloat16", TRUE,
                 [api.model EXCEPT !.relaxed = allow])

\* ANeuralNetworksModel_finish: a model without operations, or one that
\* does not validate, is invalid from then on.
ModelFinish ==
    \E valid \in BOOLEAN :
       IF badState(api.model)
       THEN ApiCall("finish", ANEURALNETWORKS_BAD_STATE, api.model, api.compilation)
       ELSE IF api.model.operations = 0 \/ ~api.model.identified \/ ~valid
       THEN ApiCall("finish", ANEURALNETWORKS_BAD_DATA,
                    [api.model EXCEPT !.invalid = TRUE], api.compilation)
       ELSE ApiCall("finish", ANEURALNETWORKS_NO_ERROR,
                    [api.model EXCEPT !.completed = TRUE], api.compilation)

\* ANeuralNetworksCompilation_create taking any model (mutant of
\* CompilationCreate).
CompilationCreateAnyModel ==
    /\ ~api.compilation.created
    /\ ApiCall("Compilation_create", ANEURALNETWORKS_NO_ERROR, api.model,
               [api.compilation EXCEPT !.created = TRUE])

\* ANeuralNetworksCompilation_create and _createForDevices: only from a
\* finished model.
CompilationCreate ==
    /\ ~api.compilation.created
    /\ IF ~api.model.completed
       THEN ApiCall("Compilation_create", ANEURALNETWORKS_BAD_STATE, api.model,
                    api.compilation)
       ELSE \E explicit \in BOOLEAN :
               ApiCall("Compilation_create", ANEURALNETWORKS_NO_ERROR, api.model,
                       [api.compilation EXCEPT !.created = TRUE,
                                               !.explicitDevices = explicit])

\* A compilation that stays open to changes after finish (mutant of
\* CompilationFrozen).
CompilationFrozenNever(c) == FALSE

\* finish has been called on the compilation: it takes no further change.
CompilationFrozen(c) == c.finished

\* ANeuralNetworksCompilation_setPreference.
CompilationSetPreference ==
    /\ api.compilation.created
    /\ \E valid \in BOOLEAN, preference \in Preferences :
         IF CompilationFrozen(api.compilation)
         THEN ApiCall("Compilation_setPreference", ANEURALNETWORKS_BAD_STATE,
                      api.model, api.compilation)
         ELSE IF ~valid
         THEN ApiCall("Compilation_setPreference", ANEURALNETWORKS_BAD_DATA,
                      api.model, api.compilation)
         ELSE ApiCall("Compilation_setPreference", ANEURALNETWORKS_NO_ERROR,
                      api.model, [api.compilation EXCEPT !.preference = preference])

\* ANeuralNetworksCompilation_setCaching.
CompilationSetCaching ==
    /\ api.compilation.created
    /\ \E valid \in BOOLEAN :
         IF CompilationFrozen(api.compilation)
         THEN ApiCall("Compilation_setCaching", ANEURALNETWORKS_BAD_STATE,
                      api.model, api.compilation)
         ELSE IF ~valid
         THEN ApiCall("Compilation_setCaching", ANEURALNETWORKS_BAD_DATA,
                      api.model, api.compilation)
         ELSE ApiCall("Compilation_setCaching", ANEURALNETWORKS_NO_ERROR,
                      api.model, [api.compilation EXCEPT !.caching = TRUE])

\* ANeuralNetworksCompilation_finish: once; it may fail, and then leaves no
\* plan to execute.
CompilationFinish ==
    /\ api.compilation.created
    /\ IF CompilationFrozen(api.compilation)
       THEN ApiCall("Compilation_finish", ANEURALNETWORKS_BAD_STATE, api.model,
                    api.compilation)
       ELSE \E r \in {ANEURALNETWORKS_NO_ERROR, ANEURALNETWORKS_BAD_DATA,
                      ANEURALNETWORKS_OP_FAILED} :
               ApiCall("Compilation_finish", r, api.model,
                       [api.compilation EXCEPT
                           !.finished = TRUE,
                           !.planValid = (r = ANEURALNETWORKS_NO_ERROR)])

\* ANeuralNetworksExecution_create: only from a compilation whose finish
\* succeeded.
ExecutionCreate ==
    /\ api.compilation.created
    /\ IF ~api.compilation.finished \/ ~api.compilation.planValid
       THEN ApiCall("Execution_create", ANEURALNETWORKS_BAD_STATE, api.model,
                    api.compilation)
       ELSE ApiCall("Execution_create", ANEURALNETWORKS_NO_ERROR, api.model,
                    api.compilation)

\* One call on the execution: its name, its result, the execution after
\* it, the output index it was given and what it wrote for the caller.
ExecutionCall(name, n, e, index, out) ==
    /\ api.phase = "api" /\ api.calls < MaxApiCalls
    /\ api.execution.state # "none"
    /\ api' = [api EXCEPT !.calls = @ + 1,
                          !.last = [call |-> name, result |-> n],
                          !.execution = e, !.index = index, !.out = out]
    /\ UNCHANGED <<execVars, query, compile, registry, callers, access, owners>>

\* ANeuralNetworksExecution_startCompute: starts the computation once.
ExecutionStartCompute ==
    IF api.execution.state = "created"
    THEN ExecutionCall("Execution_startCompute", ANEURALNETWORKS_NO_ERROR,
                       [api.execution EXCEPT !.state = "computing"], 0, <<>>)
    ELSE ExecutionCall("Execution_startCompute", ANEURALNETWORKS_BAD_STATE,
                       api.execution, 0, <<>>)

\* The computation ends in the background with its result code.
ComputationFinishes ==
    /\ api.phase = "api" /\ api.execution.state = "computing"
    /\ \E n \in {ANEURALNETWORKS_NO_ERROR, ANEURALNETWORKS_OP_FAILED} :
          api' = [api EXCEPT !.execution = [state |-> "finished", status |-> n]]
    /\ UNCHANGED <<execVars, query, compile, registry, callers, access, owners>>

\* ANeuralNetworksEvent_wait: returns the computation's result once it
\* has ended.
EventWait ==
    /\ api.execution.state = "finished"
    /\ ExecutionCall("Event_wait", api.execution.status, api.execution, 0, <<>>)

\* An execution whose results are read at any time (mutant of
\* ExecutionFinished).
ExecutionFinishedAlways(e) == TRUE

\* An execution whose computation has ended.
ExecutionFinished(e) == e.state = "finished"

\* The result code and the value of one introspection call: value(index)
\* is what a successful call writes.
OutputOperandQuery(name, value(_)) ==
    \E index \in OutputIndices :
       IF ~ExecutionFinished(api.execution)
       THEN ExecutionCall(name, ANEURALNETWORKS_BAD_STATE, api.execution, index, <<>>)
       ELSE IF index >= Len(OutputDimensions)
       THEN ExecutionCall(name, ANEURALNETWORKS_BAD_DATA, api.execution, index, <<>>)
       ELSE IF api.execution.status = ANEURALNETWORKS_NO_ERROR
       THEN ExecutionCall(name, ANEURALNETWORKS_NO_ERROR, api.execution, index,
                          value(index))
       ELSE \E n \in {ANEURALNETWORKS_NO_ERROR, ANEURALNETWORKS_BAD_STATE} :
               ExecutionCall(name, n, api.execution, index,
                             IF n = ANEURALNETWORKS_NO_ERROR THEN value(index)
                             ELSE <<>>)

OutputRank(index) == <<Len(OutputDimensions[index + 1])>>
OutputShape(index) == OutputDimensions[index + 1]

\* ANeuralNetworksExecution_getOutputOperandRank.
ExecutionGetOutputOperandRank ==
    OutputOperandQuery("Execution_getOutputOperandRank", OutputRank)

\* ANeuralNetworksExecution_getOutputOperandDimensions.
ExecutionGetOutputOperandDimensions ==
    OutputOperandQuery("Execution_getOutputOperandDimensions", OutputShape)

NextApi ==
    \/ ModelAddOperand
    \/ ModelSetOperandValue
    \/ ModelSetOperandValueFromMemory
    \/ ModelAddOperation
    \/ ModelIdentifyInputsAndOutputs
    \/ ModelRelaxComputationFloat32toFloat16
    \/ ModelFinish
    \/ CompilationCreate
    \/ CompilationSetPreference
    \/ CompilationSetCaching
    \/ CompilationFinish
    \/ ExecutionCreate
    \/ ExecutionStartCompute
    \/ ComputationFinishes
    \/ EventWait
    \/ ExecutionGetOutputOperandRank
    \/ ExecutionGetOutputOperandDimensions

SpecApi == InitApi /\ [][NextApi]_vars

(***************************************************************************)
(* Termination of DriverPreparedModel::execute.  The thread that runs      *)
(* execute() is scheduled, so its own steps are taken when they can be;    *)
(* the backend of a launched asynchronous execution is assumed to call the *)
(* callback.  Nothing else is assumed: execute() has no timeout.           *)
(***************************************************************************)
InitTermination ==
    /\ query = NoQuery /\ compile = NoCompile /\ registry = NoDiscovery /\ NoRest
    /\ device = "driver"
    /\ config \in [burstController : BOOLEAN, syncExecHal : BOOLEAN,
                   syncExecCpu : {FALSE}]
    /\ \E ik \in SeqsUpTo(ArgumentKinds({Num(4)}), 1),
          ok \in SeqsUpTo(ArgumentKinds({Num(4)}), 1) :
          InitExecution(MakeArguments(ik), MakeArguments(ok))

\* The steps of the thread that runs execute().
ExecuteSteps ==
    \/ DriverLayoutInputs
    \/ DriverLayoutOutputs
    \/ DriverCopyInputs
    \/ DriverBuildRequest
    \/ DriverBurstCompute
    \/ DriverExecuteSynchronously
    \/ DriverExecuteAsynchronously
    \/ DriverWait
    \/ DriverInterpretStatus
    \/ DriverCopyOutputs

NextTermination == ExecuteSteps \/ BackendNotify

SpecTermination == InitTermination /\ [][NextTermination]_vars

SpecTerminationFair ==
    SpecTermination /\ WF_vars(ExecuteSteps) /\ WF_vars(BackendNotify)

(***************************************************************************)
(* Properties.                                                             *)
(***************************************************************************)
Returned == pc = "done"

\* The indices of the POINTER-state arguments of a list, in order.
PointerIndices(args) ==
    SelectSeq([i \in 1..Len(args) |-> i], LAMBDA i : args[i].state = POINTER)

\* C1: getSupportedOperations leaves exactly one boolean per operation of the
\* graph, for the driver and for the reference device; for a driver device
\* whose backend answers with an error status or with a vector of another
\* length, every entry is false.
C1_SupportedOperationsLength ==
    query.phase = "returned" =>
        /\ Len(query.out) = Len(query.operations)
        /\ (query.device = "driver"
            /\ (query.status # "NONE"
                \/ Len(query.backendVector) # Len(query.operations)))
           => \A i \in 1..Len(query.out) : query.out[i] = FALSE

\* C1 witness: a backend answers NONE with N-1 entries, all true, for a
\* graph of N >= 2 operations, into a vector that held true entries.
C1_Witness ==
    /\ query.phase = "returned" /\ query.device = "driver"
    /\ query.status = "NONE"
    /\ Len(query.operations) >= 2
    /\ Len(query.backendVector) = Len(query.operations) - 1
    /\ \A i \in 1..Len(query.backendVector) : query.backendVector[i]
    /\ Len(query.out) = Len(query.operations)

\* The layout of the inputs of the call, as the loop computes it from the
\* arguments the caller passed.
InputLayout == LayoutLoop(hist.inputs0, Len(hist.inputs0), hist.tracker0)

Offset(args, i) == args[i].locationAndLength.offset
Length(args, i) == args[i].locationAndLength.length

\* Offsets never decrease along the pointer arguments.
OffsetsMonotone(args) ==
    LET P == PointerIndices(args)
    IN  \A j \in 1..Len(P) : \A k \in 1..Len(P) :
           j < k => NumLe(Offset(args, P[j]), Offset(args, P[k]))

\* Every offset is a multiple of the alignment of its argument.
OffsetsAligned(args) ==
    \A i \in 1..Len(args) :
       args[i].state = POINTER => Offset(args, i)[2] % AlignmentOf(Length(args, i)) = 0

\* Every region ends inside the total.
RegionsFit(args, total) ==
    \A i \in 1..Len(args) :
       args[i].state = POINTER => NumLe(NumAdd(Offset(args, i), Length(args, i)), total)

\* The packing is tight: the first region starts at 0, every next one at the
\* first aligned address at or after the end of the one before, and the
\* total is the end of the last one.
PackingTight(args, total) ==
    LET P == PointerIndices(args)
        End(j) == IF j = 0 THEN Num(0)
                  ELSE NumAdd(Offset(args, P[j]), Length(args, P[j]))
    IN  /\ \A j \in 1..Len(P) :
              /\ NumLe(End(j - 1), Offset(args, P[j]))
              /\ NumLt(Offset(args, P[j]),
                       NumAdd(End(j - 1), Num(AlignmentOf(Length(args, P[j])))))
        /\ total = End(Len(P))

\* Totals up to this bound are compared with every other in-order packing.
MaxEnumeratedTotal == 10

\* An in-order packing of small lengths L into T bytes: aligned, one region
\* after the other, all inside T.
IsPacking(offs, L, T) ==
    \A j \in 1..Len(L) :
       /\ offs[j] % AlignmentOf(Num(L[j])) = 0
       /\ offs[j] + L[j] <= T
       /\ j > 1 => offs[j] >= offs[j - 1] + L[j - 1]

\* No in-order packing fits in fewer bytes than total (enumerated for small
\* totals).
NoSmallerPacking(args, total) ==
    LET P == PointerIndices(args)
        L == [j \in 1..Len(P) |-> Length(args, P[j])[2]]
    IN  (total[1] = 0 /\ total[2] >= 1 /\ total[2] <= MaxEnumeratedTotal) =>
           ~ \E offs \in [1..Len(P) -> 0..(total[2] - 1)] : IsPacking(offs, L, total[2] - 1)

LayoutCorrect(args, total) ==
    /\ OffsetsMonotone(args)
    /\ OffsetsAligned(args)
    /\ RegionsFit(args, total)
    /\ PackingTight(args, total)
    /\ NoSmallerPacking(args, total)

\* C2 as stated: for any sequence of arguments the offsets are monotone and
\* aligned, every region fits in the total, and the total is minimal.
C2_AnySequence ==
    pc # "start" => LayoutCorrect(inputs, InputLayout.total)

\* C2 amended: the same, for every sequence whose packed total does not
\* exceed 0xFFFFFFFF (the layout does not end with BAD_DATA).
C2_LayoutWithin32Bits ==
    (pc # "start" /\ NumLe(InputLayout.total, UINT32_MAX)) =>
        LayoutCorrect(inputs, InputLayout.total)

\* C2 witness: three pointer arguments of 1, 4 and 2 bytes laid out at 0, 4
\* and 8 (three bytes of padding), total 10.
C2_Witness ==
    /\ pc # "start"
    /\ Len(inputs) = 3
    /\ \A i \in 1..3 : inputs[i].state = POINTER
    /\ <<Length(inputs, 1), Length(inputs, 2), Length(inputs, 3)>> = <<Num(1), Num(4), Num(2)>>
    /\ <<Offset(inputs, 1), Offset(inputs, 2), Offset(inputs, 3)>> = <<Num(0), Num(4), Num(8)>>
    /\ InputLayout.total = Num(10)

\* The layout of the outputs of the call; the total does not depend on the
\* pool index.
OutputLayout == LayoutLoop(hist.outputs0, Len(hist.outputs0), hist.tracker0)

HasStep(name) == \E k \in 1..Len(hist.steps) : hist.steps[k] = name

DriverReturned == device = "driver" /\ Returned

\* The tracker and the heap are as they were before the call.
NoPoolAllocated ==
    /\ Len(memories) = hist.tracker0
    /\ Len(heap) = hist.tracker0
    /\ inputPointerArguments = 0 /\ outputPointerArguments = 0

\* C3 as stated: when the packed lengths of the inputs and of the outputs
\* together exceed 0xFFFFFFFF, execute() returns BAD_DATA, allocates no pool
\* and leaves the tracker at its size.
C3_CombinedOverflow ==
    (DriverReturned
     /\ NumLt(UINT32_MAX, NumAdd(InputLayout.total, OutputLayout.total)))
    => (result = ANEURALNETWORKS_BAD_DATA /\ NoPoolAllocated)

\* C3 amended: the limit is per side.  When the packed length of the inputs
\* exceeds 0xFFFFFFFF, execute() returns BAD_DATA, allocates no pool and
\* leaves the tracker at its size.  When the inputs were laid out and the
\* packed length of the outputs exceeds 0xFFFFFFFF, execute() returns
\* BAD_DATA and allocates no output pool; the tracker then holds the input
\* pool, if the inputs needed one, and nothing else new.
C3_PerSideOverflow ==
    DriverReturned =>
        /\ NumLt(UINT32_MAX, InputLayout.total)
           => (result = ANEURALNETWORKS_BAD_DATA /\ NoPoolAllocated)
        /\ (HasStep("layoutOutputs") /\ NumLt(UINT32_MAX, OutputLayout.total))
           => /\ result = ANEURALNETWORKS_BAD_DATA
              /\ outputPointerArguments = 0
              /\ Len(memories) = hist.tracker0
                                 + (IF inputPointerArguments # 0 THEN 1 ELSE 0)
              /\ Len(heap) = Len(memories)

\* C3 witness: two pointer outputs of 0x80000000 bytes after a 4-byte
\* pointer input: BAD_DATA, and the tracker holds the input pool.
C3_Witness ==
    /\ DriverReturned
    /\ HasStep("layoutOutputs")
    /\ NumLt(UINT32_MAX, OutputLayout.total)
    /\ InputLayout.total = Num(4)
    /\ result = ANEURALNETWORKS_BAD_DATA
    /\ Len(memories) = hist.tracker0 + 1
    /\ outputPointerArguments = 0

\* The result the signal carries.
Carried ==
    [status |-> executionCallback.status,
     outputShapes |-> executionCallback.outputShapes,
     timing |-> executionCallback.timing]

\* execute() has passed executionCallback->wait().
Waited == HasStep("wait")

\* The calls of notify that execute() and its worker make, per path: one on
\* the burst, synchronous and reference paths once they have computed, none
\* by the runtime on the asynchronous path, where the backend notifies.
NotifyCount ==
    /\ hist.runtimeNotifies <= 1
    /\ (device = "driver" /\ Waited) =>
          /\ hist.runtimeNotifies + backend.notifies >= 1
          /\ HasStep("async") <=> hist.runtimeNotifies = 0
    /\ (device = "cpu" /\ Returned /\ result = ANEURALNETWORKS_NO_ERROR) =>
          IF config.syncExecCpu
          THEN hist.runtimeNotifies = 1 /\ executionCallback.notified
          ELSE hist.runtimeNotifies = (IF backend.thread = "finished" THEN 1 ELSE 0)
    /\ hist.runtimeNotifies = 1 => executionCallback.notified
    /\ Waited => (executionCallback.notified /\ Carried = hist.delivered)

\* C4: on every path (burst without fallback, fallback to synchronous or
\* asynchronous, no burst, reference inline or worker) the runtime notifies
\* the signal of an execution at most once, the signal is completed when
\* execute() has waited, and a completed signal never changes again, so a
\* later notification does not overwrite the delivered result.
C4_AtMostOneNotify ==
    /\ [](NotifyCount)
    /\ [][executionCallback.notified => executionCallback' = executionCallback]_vars

\* C4 witness: the backend of an asynchronous execution has notified twice
\* and execute() returned with the first result, NONE, in the signal.
C4_Witness ==
    /\ DriverReturned /\ HasStep("async")
    /\ backend.notifies = 2
    /\ hist.runtimeNotifies = 0
    /\ Carried = hist.delivered
    /\ hist.delivered.status = "NONE"

\* C5: when the burst requests a fallback it delivers nothing; the result
\* the signal carries after execute() is the one produced by the
\* synchronous or asynchronous path that followed.
C5_FallbackCorrectness ==
    (device = "driver" /\ hist.fallback) =>
        /\ pc = "backend" => (~executionCallback.notified /\ hist.runtimeNotifies = 0)
        /\ Waited => (hist.delivered = hist.produced /\ Carried = hist.produced)

\* C5 witness: a burst fell back, the synchronous path answered NONE and
\* execute() returned with that result in the signal.
C5_Witness ==
    /\ DriverReturned /\ hist.fallback /\ HasStep("sync")
    /\ result = ANEURALNETWORKS_NO_ERROR
    /\ Carried = hist.produced
    /\ hist.produced.status = "NONE"

PoolByte(data, offset, k) ==
    IF offset[1] = 0 /\ offset[2] + k + 1 <= Len(data)
    THEN data[offset[2] + k + 1] ELSE OutsideWindow

\* The regions of the POINTER arguments of one side do not overlap.
RegionsDisjoint(args) ==
    \A i \in 1..Len(args) : \A j \in 1..Len(args) :
       (i # j /\ args[i].state = POINTER /\ args[j].state = POINTER) =>
          \/ NumLe(NumAdd(Offset(args, i), Length(args, i)), Offset(args, j))
          \/ NumLe(NumAdd(Offset(args, j), Length(args, j)), Offset(args, i))

\* The input pool handed to the backend holds the caller's bytes at the
\* recorded region of every POINTER input.
InputsRelayed ==
    \A i \in 1..Len(inputs) :
       inputs[i].state = POINTER =>
          \A k \in 0..(Len(callerBuffers.in[i]) - 1) :
             LET b == PoolByte(hist.poolAtDispatch, Offset(inputs, i), k)
             IN  b # OutsideWindow => b = callerBuffers.in[i][k + 1]

\* The buffer of every POINTER output holds the bytes the output pool held
\* at the recorded region when the completion was observed.
OutputsRelayed ==
    \A i \in 1..Len(outputs) :
       outputs[i].state = POINTER =>
          \A k \in 0..(Len(callerBuffers.out[i]) - 1) :
             callerBuffers.out[i][k + 1]
                = PoolByte(hist.poolAtCompletion, Offset(outputs, i), k)

\* C9: when a driver execution completes with NONE, the input pool held the
\* caller's bytes at the recorded region of every pointer input before the
\* dispatch, every pointer output's buffer holds what the output pool held
\* at its recorded region at completion, and the recorded regions of two
\* pointer arguments of the same side do not overlap.
C9_CopyRelay ==
    (DriverReturned /\ Waited /\ hist.delivered.status = "NONE") =>
        /\ InputsRelayed
        /\ OutputsRelayed
        /\ RegionsDisjoint(inputs)
        /\ RegionsDisjoint(outputs)

\* C9 witness: pointer inputs of 1 and 4 bytes (three bytes of padding
\* between them) and a 4-byte pointer output; the backend answered NONE and
\* wrote 101..104, which the caller's buffer now holds.
C9_Witness ==
    /\ DriverReturned /\ Waited /\ hist.delivered.status = "NONE"
    /\ Len(inputs) = 2 /\ Len(outputs) = 1
    /\ inputs[1].state = POINTER /\ inputs[2].state = POINTER
    /\ <<Length(inputs, 1), Length(inputs, 2)>> = <<Num(1), Num(4)>>
    /\ hist.poolAtDispatch = <<21, 0, 0, 0, 41, 42, 43, 44>>
    /\ outputs[1].state = POINTER
    /\ callerBuffers.out[1] = <<101, 102, 103, 104>>

\* The pools execute() has created so far: the heap past the caller's.
PoolsCreated == Len(heap) - hist.tracker0

\* The position of a pool in the tracker, 0 when it is not there.
TrackerIndex(id) ==
    IF \E i \in 1..Len(memories) : memories[i] = id
    THEN CHOOSE i \in 1..Len(memories) : memories[i] = id
    ELSE 0

\* What holds of the pools in every call: at most one per side, each of the
\* size of its side's packed total, each in the tracker, the tracker grown
\* by the number created, the input pool before the output pool.
PoolsAccounted ==
    /\ PoolsCreated = (IF inputPointerArguments # 0 THEN 1 ELSE 0)
                      + (IF outputPointerArguments # 0 THEN 1 ELSE 0)
    /\ Len(memories) = hist.tracker0 + PoolsCreated
    /\ inputPointerArguments # 0 =>
          /\ heap[inputPointerArguments].size = InputLayout.total
          /\ TrackerIndex(inputPointerArguments) = hist.tracker0 + 1
    /\ outputPointerArguments # 0 =>
          /\ heap[outputPointerArguments].size = OutputLayout.total
          /\ TrackerIndex(outputPointerArguments) > hist.tracker0
          /\ inputPointerArguments # 0 =>
                TrackerIndex(inputPointerArguments)
                   < TrackerIndex(outputPointerArguments)

\* A side's pool exists exactly when its packed total is positive.
PoolIffPositive ==
    /\ inputPointerArguments # 0 <=> InputLayout.total # Num(0)
    /\ outputPointerArguments # 0 <=> OutputLayout.total # Num(0)

\* C10 as stated: in every call of the driver's execute() a side's pool is
\* created exactly when the side's packed total is positive, with the
\* accounting above.
C10_PoolIffPositiveTotal ==
    DriverReturned => (PoolsAccounted /\ PoolIffPositive)

\* C10 amended: the accounting holds in every call; a side's pool is created
\* exactly when the side's packed total is positive in the calls whose
\* layout step succeeds (no total above 0xFFFFFFFF, no failed allocation).
C10_PoolsPerSide ==
    device = "driver" =>
        /\ PoolsAccounted
        /\ HasStep("layoutOutputs") /\ pc # "done" => PoolIffPositive
        /\ HasStep("copyIn") => PoolIffPositive

\* C10 witness: two 4-byte pointer inputs and one 4-byte pointer output, no
\* pool of the caller: an 8-byte input pool at tracker index 0 with regions
\* [0,4) and [4,8), a 4-byte output pool at index 1 with region [0,4).
C10_Witness ==
    /\ DriverReturned /\ result = ANEURALNETWORKS_NO_ERROR
    /\ hist.tracker0 = 0
    /\ Len(inputs) = 2 /\ Len(outputs) = 1
    /\ \A i \in 1..2 : inputs[i].state = POINTER /\ Length(inputs, i) = Num(4)
    /\ outputs[1].state = POINTER /\ Length(outputs, 1) = Num(4)
    /\ <<Offset(inputs, 1), Offset(inputs, 2), Offset(outputs, 1)>>
          = <<Num(0), Num(4), Num(0)>>
    /\ memories = <<inputPointerArguments, outputPointerArguments>>
    /\ heap[inputPointerArguments].size = Num(8)
    /\ heap[outputPointerArguments].size = Num(4)
    /\ inputs[1].locationAndLength.poolIndex = 0
    /\ outputs[1].locationAndLength.poolIndex = 1

\* The place of a step in the text of the driver's execute().
StepRank(name) ==
    CASE name = "layoutInputs"  -> 1
      [] name = "layoutOutputs" -> 2
      [] name = "copyIn"        -> 3
      [] name = "request"       -> 4
      [] name = "burst"         -> 5
      [] name \in {"sync", "async", "launchFailed"} -> 6
      [] name = "wait"          -> 7
      [] name = "interpret"     -> 8
      [] name = "copyOut"       -> 9
      [] OTHER                  -> 0

\* The steps taken so far are in the order of the text, none twice, and a
\* step is taken only after the ones it depends on.
StepsSequential ==
    /\ \A k \in 1..Len(hist.steps) : StepRank(hist.steps[k]) > 0
    /\ \A k \in 1..(Len(hist.steps) - 1) :
          StepRank(hist.steps[k]) < StepRank(hist.steps[k + 1])
    /\ HasStep("layoutOutputs") => HasStep("layoutInputs")
    /\ HasStep("copyIn") => HasStep("layoutOutputs")
    /\ HasStep("request") => HasStep("copyIn")
    /\ (HasStep("burst") \/ HasStep("sync") \/ HasStep("async")
        \/ HasStep("launchFailed")) => HasStep("request")
    /\ HasStep("wait") =>
          (HasStep("burst") \/ HasStep("sync") \/ HasStep("async"))
    /\ HasStep("interpret") => HasStep("wait")
    /\ HasStep("copyOut") => HasStep("interpret")

\* C11: the steps of one driver execution happen in the order layout,
\* copy-in, dispatch, wait, copy-out; a caller's output buffer changes only
\* in the copy-out, which runs only after the signal was notified with
\* status NONE; after a hard failure or OUTPUT_INSUFFICIENT_SIZE every
\* caller's output buffer is as before the call.
C11_StepOrdering ==
    device = "driver" =>
        /\ StepsSequential
        /\ HasStep("copyOut") =>
              (executionCallback.notified /\ hist.delivered.status = "NONE")
        /\ callerBuffers.out # OutputBuffers(hist.outputs0) => HasStep("copyOut")
        /\ (Returned /\ Waited /\ hist.delivered.status # "NONE") =>
              callerBuffers.out = OutputBuffers(hist.outputs0)

\* C11 witness: an execution with a 4-byte pointer output ended with
\* OUTPUT_INSUFFICIENT_SIZE and NO_ERROR; the output buffer still holds its
\* bytes from before the call.
C11_Witness ==
    /\ DriverReturned /\ Waited
    /\ hist.delivered.status = "OUTPUT_INSUFFICIENT_SIZE"
    /\ result = ANEURALNETWORKS_NO_ERROR
    /\ outputPointerArguments # 0
    /\ Len(outputs) = 1 /\ outputs[1].state = POINTER
    /\ callerBuffers.out[1] = <<7, 7, 7, 7>>

\* Two lists of arguments agree in everything execute() may not touch:
\* state, buffer, dimensions and length of every argument, and the whole
\* location of the arguments that are not in POINTER state.
SameBindings(args, args0) ==
    /\ Len(args) = Len(args0)
    /\ \A i \in 1..Len(args) :
          /\ args[i].state = args0[i].state
          /\ args[i].buffer = args0[i].buffer
          /\ args[i].dimensions = args0[i].dimensions
          /\ Length(args, i) = Length(args0, i)
          /\ args[i].state # POINTER => args[i] = args0[i]

\* C12 as stated: after execute() returns, with success or any error, every
\* argument of the caller is as it was before the call.
C12_ArgumentsUntouched ==
    Returned => (inputs = hist.inputs0 /\ outputs = hist.outputs0)

\* C12 amended: execute() writes the pool index and the offset of the
\* POINTER-state arguments into the caller's arguments themselves; after it
\* returns, state, buffer, dimensions and length of every argument and the
\* whole of every argument in another state are as before the call.  The
\* driver leaves the laid out side as the layout loop computed it, also
\* when the call ends with BAD_DATA.
C12_OnlyPoolIndexAndOffsetChange ==
    Returned =>
        /\ SameBindings(inputs, hist.inputs0)
        /\ SameBindings(outputs, hist.outputs0)
        /\ device = "driver" => inputs = InputLayout.args
        /\ (device = "driver" /\ HasStep("layoutOutputs")) =>
              \A i \in 1..Len(outputs) :
                 Offset(outputs, i) = Offset(OutputLayout.args, i)

\* C12 witness: the driver's execute() returned BAD_DATA for three pointer
\* inputs whose lengths exceed 32 bits together; the caller's second input,
\* bound at offset 0 before the call, now carries the offset 4 of the layout.
C12_Witness ==
    /\ DriverReturned
    /\ result = ANEURALNETWORKS_BAD_DATA
    /\ ~HasStep("layoutOutputs")
    /\ Len(inputs) = 3
    /\ \A i \in 1..3 : inputs[i].state = POINTER
    /\ inputs # hist.inputs0
    /\ Offset(inputs, 2) = Num(4)
    /\ Offset(hist.inputs0, 2) = Num(0)

CompileReturned == compile.phase = "returned"

DriverCompile ==
    compile.entry \in {"DriverDevice::prepareModel",
                       "DriverDevice::prepareModelFromCache"}

\* C13: DriverDevice::prepareModel and prepareModelFromCache return
\* OP_FAILED for every backend status other than NONE and for NONE with a
\* null handle, and NO_ERROR with a DriverPreparedModel around the handle
\* for NONE with a handle.
C13_DriverCompileMapping ==
    (CompileReturned /\ DriverCompile) =>
        IF compile.answer.status = "NONE" /\ compile.answer.preparedModel # 0
        THEN /\ compile.n = ANEURALNETWORKS_NO_ERROR
             /\ compile.out = DriverPreparedModel(compile.answer.preparedModel)
        ELSE compile.n = ANEURALNETWORKS_OP_FAILED

\* C13 witness: prepareModelFromCache got NONE with a null handle and
\* returned OP_FAILED.
C13_Witness ==
    /\ CompileReturned
    /\ compile.entry = "DriverDevice::prepareModelFromCache"
    /\ compile.answer = [status |-> "NONE", preparedModel |-> 0]
    /\ compile.n = ANEURALNETWORKS_OP_FAILED

\* C14: for every compile entry point that returns, the caller's output is
\* null exactly when the returned code is not NO_ERROR, whatever it held
\* before the call.
C14_NoPreparedModelOnFailure ==
    CompileReturned =>
        /\ compile.out = NullPreparedModel <=> compile.n # ANEURALNETWORKS_NO_ERROR
        /\ compile.out # StalePreparedModel

\* C14 witness: the reference device's prepareModel returned OP_FAILED for
\* a graph that does not validate, to a caller whose output held a previous
\* PreparedModel, and left the output null.
C14_Witness ==
    /\ CompileReturned
    /\ compile.entry = "CpuDevice::prepareModel"
    /\ ~compile.hidlModel.valid
    /\ compile.before = StalePreparedModel
    /\ compile.n = ANEURALNETWORKS_OP_FAILED
    /\ compile.out = NullPreparedModel

\* C15: with empty cache-handle lists CpuDevice::prepareModel returns
\* OP_FAILED exactly when the graph or the preference fails validation,
\* UNMAPPABLE exactly when both validate and a pool of the graph cannot be
\* mapped, and otherwise NO_ERROR with a prepared model that holds the graph
\* and one resolved pool per pool of the graph; with a cache handle it
\* aborts and returns nothing.
C15_ReferenceCompile ==
    (compile.phase \in {"returned", "aborted"}
     /\ compile.entry = "CpuDevice::prepareModel") =>
        LET m        == compile.hidlModel
            valid    == m.valid /\ compile.preferenceValid
            mappable == \A i \in 1..Len(m.pools) : m.pools[i]
        IN  IF compile.modelCache # 0 \/ compile.dataCache # 0
            THEN compile.phase = "aborted" /\ compile.n = NotReturned
            ELSE /\ compile.phase = "returned"
                 /\ compile.n = ANEURALNETWORKS_OP_FAILED <=> ~valid
                 /\ compile.n = ANEURALNETWORKS_UNMAPPABLE <=> (valid /\ ~mappable)
                 /\ compile.n = ANEURALNETWORKS_NO_ERROR <=> (valid /\ mappable)
                 /\ compile.n = ANEURALNETWORKS_NO_ERROR =>
                       /\ compile.out.kind = "CpuPreparedModel"
                       /\ compile.out.mModel = m
                       /\ Len(compile.out.mModelPoolInfos) = Len(m.pools)
                       /\ \A i \in 1..Len(m.pools) :
                             compile.out.mModelPoolInfos[i] = <<"mapped", i>>

\* C15 witness: a valid graph with two pools, the second of which cannot be
\* mapped: UNMAPPABLE.
C15_Witness ==
    /\ CompileReturned
    /\ compile.entry = "CpuDevice::prepareModel"
    /\ compile.hidlModel.valid /\ compile.preferenceValid
    /\ compile.hidlModel.pools = <<TRUE, FALSE>>
    /\ compile.n = ANEURALNETWORKS_UNMAPPABLE

\* C16: prepareModelFromCache on the reference device never returns
\* NO_ERROR and never puts a PreparedModel in the caller's output, whatever
\* the cache handles: the call ends in the fatal assertion.
C16_ReferenceFromCacheRejected ==
    (compile.phase \in {"returned", "aborted"}
     /\ compile.entry = "CpuDevice::prepareModelFromCache") =>
        /\ compile.phase = "returned" => compile.n = ANEURALNETWORKS_OP_FAILED
        /\ compile.phase = "aborted" => compile.n = NotReturned
        /\ compile.out = compile.before

\* C16 witness: the call was made with a model cache handle and ended in
\* the assertion.
C16_Witness ==
    /\ compile.phase = "aborted"
    /\ compile.entry = "CpuDevice::prepareModelFromCache"
    /\ compile.modelCache = 1
    /\ compile.hidlModel.valid
    /\ compile.out = NullPreparedModel

\* C17: CpuDevice::getSupportedOperations reports operation i as supported
\* exactly when its type is neither an extension type nor OEM_OPERATION,
\* for every graph and every i, whatever the operands of the graph.
C17_ReferenceSupportPredicate ==
    (query.phase = "returned" /\ query.device = "cpu") =>
        /\ Len(query.out) = Len(query.operations)
        /\ \A i \in 1..Len(query.operations) :
              query.out[i] <=>
                 query.operations[i] \notin {"EXTENSION", "OEM_OPERATION"}

\* C17 witness: a graph of an ADD, an OEM_OPERATION and an extension
\* operation: supported, unsupported, unsupported.
C17_Witness ==
    /\ query.phase = "returned" /\ query.device = "cpu"
    /\ query.operations = <<"ADD", "OEM_OPERATION", "EXTENSION">>
    /\ query.out = <<TRUE, FALSE, FALSE>>

Constructed == registry.phase = "constructed"

\* The entries of the registry that are driver devices, in order.
DriverPart == SelectSeq(registry.mDevices, LAMBDA d : d.kind = "driver")

\* The number of entries of the registry that are the reference device.
CpuEntries ==
    Cardinality({i \in 1..Len(registry.mDevices) : registry.mDevices[i].kind = "cpu"})

\* C18: after discovery the reference device is in the registry, once and
\* as the last entry, whatever discovery did, also without a service
\* manager.
C18_ReferenceDeviceAlwaysLast ==
    Constructed =>
        /\ Len(registry.mDevices) >= 1
        /\ registry.mDevices[Len(registry.mDevices)].kind = "cpu"
        /\ CpuEntries = 1

\* The names, in advertised order, whose service gave a handle and whose
\* device passed the four conditions of initialize().
RECURSIVE Accepted(_, _)
Accepted(names, k) ==
    IF k = 0 THEN <<>>
    ELSE LET b == names[k]
         IN  IF /\ b.handle /\ b.interface
                /\ b.capabilities = "NONE"
                /\ b.versionString = "NONE"
                /\ b.supportedExtensions = "NONE"
             THEN Append(Accepted(names, k - 1), k)
             ELSE Accepted(names, k - 1)

\* C19: when the service manager lists no driver name, the registry holds
\* one entry, the object getCpuDevice() returns; every call of
\* getCpuDevice() returns the same object.
C19_OnlyReferenceDevice ==
    /\ \A i \in 1..Len(registry.returned) :
          /\ registry.returned[i] = registry.cpuInstance
          /\ registry.returned[i] = registry.returned[1]
    /\ (Constructed /\ registry.manager /\ registry.names = <<>>) =>
          /\ registry.mDevices = <<CpuEntry(registry.cpuInstance)>>
          /\ registry.cpuInstance # 0

\* C19 witness: getCpuDevice() was called before and after a discovery that
\* found no name; the registry holds the one object both calls returned.
C19_Witness ==
    /\ Constructed /\ registry.manager /\ registry.names = <<>>
    /\ Len(registry.returned) = 2
    /\ registry.created = 1
    /\ registry.mDevices = <<CpuEntry(registry.returned[1])>>
    /\ registry.returned[2] = registry.returned[1]

\* C20: the driver part of the registry is the subsequence, in advertised
\* order, of the names whose service gave a handle and whose device was
\* initialized; a device is initialized exactly when its interface is not
\* null and the capabilities, version-string and supported-extensions
\* queries answer NONE, whatever the cache-file-count query answers; a name
\* that fails is skipped and the names after it are still visited; no step
\* of discovery aborts.
C20_DiscoveryTolerant ==
    /\ registry.phase = "listing" =>
          /\ [i \in 1..Len(DriverPart) |-> DriverPart[i].name]
                = Accepted(registry.names, registry.pos - 1)
          /\ registry.pos <= Len(registry.names) + 1
    /\ Constructed =>
          /\ [i \in 1..Len(DriverPart) |-> DriverPart[i].name]
                = Accepted(registry.names, Len(registry.names))
          /\ registry.manager => registry.pos = Len(registry.names) + 1
    /\ registry.phase \in {"none", "start", "listing", "constructed"}

\* C20 witness: of two advertised names the first fails its version-string
\* query and the second fails only the cache-file-count query; the registry
\* holds the second and then the reference device.
C20_Witness ==
    /\ Constructed
    /\ Len(registry.names) = 2
    /\ registry.names[1].versionString = "GENERAL_FAILURE"
    /\ registry.names[2].numberOfCacheFilesNeeded = "GENERAL_FAILURE"
    /\ Len(registry.mDevices) = 2
    /\ registry.mDevices[1].kind = "driver" /\ registry.mDevices[1].name = 2
    /\ registry.mDevices[2].kind = "cpu"

\* C21: every registered device has both cache-file counts at most the
\* maximum; a driver whose cache-file-count query failed, or reported either
\* count above the maximum, has the pair (0, 0), both counts reset even when
\* only one is out of range, and does not support caching; any other driver
\* keeps the reported pair; the reference device has (0, 0).
C21_CacheFileCounts ==
    \A i \in 1..Len(registry.mDevices) :
       LET d == registry.mDevices[i]
       IN  /\ d.mNumCacheFiles[1] <= MAX_NUMBER_OF_CACHE_FILES
           /\ d.mNumCacheFiles[2] <= MAX_NUMBER_OF_CACHE_FILES
           /\ d.kind = "cpu" =>
                 d.mNumCacheFiles = <<0, 0>> /\ ~isCachingSupported(d.mNumCacheFiles)
           /\ d.kind = "driver" =>
                 LET b == registry.names[d.name]
                 IN  IF \/ b.numberOfCacheFilesNeeded # "NONE"
                        \/ b.reported[1] > MAX_NUMBER_OF_CACHE_FILES
                        \/ b.reported[2] > MAX_NUMBER_OF_CACHE_FILES
                     THEN /\ d.mNumCacheFiles = <<0, 0>>
                          /\ ~isCachingSupported(d.mNumCacheFiles)
                     ELSE d.mNumCacheFiles = b.reported

\* C21 witness: a driver that reported one model-cache file and more than
\* the maximum of data-cache files is registered with (0, 0), before the
\* reference device.
C21_Witness ==
    /\ Constructed
    /\ Len(registry.mDevices) = 2
    /\ registry.names[1].numberOfCacheFilesNeeded = "NONE"
    /\ registry.names[1].reported = <<1, MAX_NUMBER_OF_CACHE_FILES + 1>>
    /\ registry.mDevices[1].kind = "driver"
    /\ registry.mDevices[1].mNumCacheFiles = <<0, 0>>
    /\ registry.mDevices[2].mNumCacheFiles = <<0, 0>>

\* C22: no two registered devices, drivers and the reference device
\* together, have the same name, whatever names discovery advertises.
C22_NamesUnique ==
    \A i, j \in 1..Len(registry.mDevices) :
       i # j => registry.mDevices[i].mName # registry.mDevices[j].mName

\* C23: for any number of threads calling DeviceManager::get()
\* concurrently, the manager is constructed, and discovery run, exactly
\* once; every call returns the same manager; a caller that has returned
\* finds the registry as discovery left it, never a partly populated one.
C23_SingletonOnce ==
    callers.phase = "threads" =>
       /\ callers.constructions <= 1
       /\ registry.phase # "none" <=> callers.constructions = 1
       /\ \A t \in Threads :
             callers.pc[t] = "returned" =>
                /\ callers.got[t] = 1
                /\ callers.seen[t].phase = "constructed"
                /\ callers.seen[t].mDevices = registry.mDevices
                /\ registry.phase = "constructed"
       /\ \A t, u \in Threads :
             (callers.pc[t] = "returned" /\ callers.pc[u] = "returned") =>
                callers.got[t] = callers.got[u]

\* C23 witness: two threads have returned from get(), one of them after
\* waiting for the other's construction; the manager was constructed once
\* and its registry holds a driver and the reference device.
C23_Witness ==
    /\ callers.phase = "threads"
    /\ \A t \in Threads : callers.pc[t] = "returned"
    /\ \E t \in Threads : callers.waited[t]
    /\ callers.constructions = 1
    /\ Len(registry.mDevices) = 2

\* The discovery of SpecDiscovery leaves the registry ConstructedRegistry
\* computes.
DiscoveryConstructs ==
    (Constructed /\ registry.manager /\ registry.returned = <<>>) =>
        registry = ConstructedRegistry(registry.names)

\* C24: once the devices are registered, no accessor call and no step of
\* getSupportedOperations, prepareModel, prepareModelFromCache or execute
\* changes a device's name, version string, capabilities, extension list or
\* cache-file requirement, or the contents of the registry.
C24_DevicesImmutable ==
    [][/\ registry.mDevices' = registry.mDevices
       /\ registry.mDevicesCpuOnly' = registry.mDevicesCpuOnly]_vars

\* C24 witness: getName and then getNumberOfCacheFilesNeeded were called on
\* the registered driver, which still has the name and the counts it was
\* registered with.
C24_Witness ==
    /\ access.phase = "calls" /\ Len(access.log) = 2
    /\ access.log[1] = [device |-> 1, accessor |-> "getName", value |-> "sample-driver"]
    /\ access.log[2] = [device |-> 1, accessor |-> "getNumberOfCacheFilesNeeded",
                        value |-> <<1, 1>>]
    /\ registry.mDevices[1].mName = "sample-driver"
    /\ registry.mDevices[1].mNumCacheFiles = <<1, 1>>
    /\ Len(registry.mDevices) = 2

\* C25: a pool allocated by execute() is alive as long as something refers
\* to it: while the backend request is in flight, and for as long as the
\* caller's memory tracker lists it, also after execute() has returned,
\* with success or with an error raised after the pool was registered.
C25_PoolsOutliveHolders ==
    /\ \A i \in 1..Len(memories) : heap[memories[i]].alive
    /\ (device = "driver" /\ pc = "wait") =>
          \A p \in 1..Len(heap) : heap[p].alive

\* C26: while a reference-device worker thread is still running the kernel,
\* the PreparedModel whose graph and resolved pools it reads is alive, for
\* every interleaving of the caller releasing its PreparedModel reference
\* and the worker running.
C26_ModelOutlivesWorker ==
    (owners.phase = "handles" /\ backend.thread = "running") => PreparedModelAlive

\* The waiters that have returned from wait() returned after the notify and
\* with the result the signal carries.
WaitersSafe ==
    owners.phase = "handles" =>
       \A t \in WaiterThreads :
          /\ owners.wait[t] = "released" =>
                /\ executionCallback.notified
                /\ owners.got[t] = executionCallback.status
          /\ owners.wait[t] = "blocked" => owners.got[t] = "none"

\* C27: several threads can wait on the completion signal at once; none is
\* released before the notify; every thread released, at the notify or by a
\* later wait, has the result of the one notify; a thread blocked when the
\* signal is notified is released.
C27_WaitersReleasedAtNotify ==
    /\ []WaitersSafe
    /\ \A t \in WaiterThreads :
          [](owners.phase = "handles" /\ owners.wait[t] = "blocked"
             /\ executionCallback.notified
             => <>(owners.wait[t] = "released"))

\* C27 witness: the reference device's worker notified an error while both
\* waiting threads were blocked in wait(); both have returned from wait()
\* with that error.
C27_Witness ==
    /\ owners.phase = "handles"
    /\ device = "cpu" /\ backend.thread = "finished"
    /\ executionCallback.notified /\ executionCallback.status = "GENERAL_FAILURE"
    /\ \A t \in WaiterThreads :
          /\ owners.blocked[t]
          /\ owners.wait[t] = "released" /\ owners.got[t] = "GENERAL_FAILURE"

\* C28: the caller's release of its handle on an outstanding execution does
\* not destroy the completion signal: while the worker thread runs, and
\* while execute() runs, the signal is alive whatever the caller has
\* released; a signal that was handed to a worker thread or to a launched
\* request and is destroyed has been notified.
C28_SignalSurvivesRelease ==
    owners.phase = "handles" =>
       /\ backend.thread = "running" => CallbackAlive
       /\ pc # "done" => CallbackAlive
       /\ (~CallbackAlive /\ (backend.thread # "none" \/ backend.launched)) =>
             executionCallback.notified

\* C28 witness: the caller released its handle while the worker thread was
\* running; the thread's reference keeps the signal alive, not yet notified.
C28_Witness ==
    /\ owners.phase = "handles"
    /\ owners.callbackReleased
    /\ backend.thread = "running"
    /\ ~executionCallback.notified
    /\ CallbackAlive /\ ~CallerHoldsCallback /\ ~LocalHoldsCallback

\* The step is one call of the API.
ApiStep == api.phase = "api" /\ api'.calls = api.calls + 1

\* C29: on a model whose finish succeeded, every modifying call, finish
\* included, returns BAD_STATE and leaves the model as it was; finish on a
\* model that was not finished before and has no operations returns
\* BAD_DATA.
C29_FinishedModelFrozen ==
    [][ApiStep =>
         /\ (api.model.completed /\ api'.last.call \in ModifyingCalls) =>
               /\ api'.last.result = ANEURALNETWORKS_BAD_STATE
               /\ api'.model = api.model
         /\ (/\ api'.last.call = "finish"
             /\ ~api.model.completed /\ ~api.model.invalid
             /\ api.model.operations = 0) =>
               api'.last.result = ANEURALNETWORKS_BAD_DATA]_vars

\* C29 witness: the model with an operand and an operation was finished
\* with success, and the addOperation that followed returned BAD_STATE; the
\* model still has its one operation.
C29_Witness ==
    /\ api.phase = "api"
    /\ api.model.completed /\ api.model.operations = 1
    /\ api.last = [call |-> "addOperation", result |-> ANEURALNETWORKS_BAD_STATE]

C31_FinishedCompilationFrozen ==
    [][(/\ ApiStep
        /\ api.compilation.finished /\ api.compilation.planValid
        /\ api'.last.call \in {"Compilation_setPreference", "Compilation_setCaching",
                               "Compilation_finish"}) =>
          /\ api'.last.result = ANEURALNETWORKS_BAD_STATE
          /\ api'.compilation = api.compilation]_vars

\* C31 witness: a compilation created for an explicit device list was
\* finished with success, and the setPreference that followed returned
\* BAD_STATE; the preference is the default one.
C31_Witness ==
    /\ api.phase = "api"
    /\ api.compilation.explicitDevices
    /\ api.compilation.finished /\ api.compilation.planValid
    /\ api.compilation.preference = "default"
    /\ api.last = [call |-> "Compilation_setPreference",
                   result |-> ANEURALNETWORKS_BAD_STATE]

\* C32: the rank and the dimensions of an output are refused with BAD_STATE
\* on an execution that has not computed; once the computation was started
\* and the wait on its event succeeded, a valid output index gives NO_ERROR
\* with the output's rank or dimensions and an index outside the model's
\* outputs gives BAD_DATA.
OutputQueries ==
    {"Execution_getOutputOperandRank", "Execution_getOutputOperandDimensions"}

C32_IntrospectionGated ==
    [][(ApiStep /\ api'.last.call \in OutputQueries) =>
         /\ api.execution.state = "created" =>
               /\ api'.last.result = ANEURALNETWORKS_BAD_STATE
               /\ api'.out = <<>>
         /\ (/\ api.execution.state = "finished"
             /\ api.execution.status = ANEURALNETWORKS_NO_ERROR) =>
               IF api'.index < Len(OutputDimensions)
               THEN /\ api'.last.result = ANEURALNETWORKS_NO_ERROR
                    /\ api'.out =
                          IF api'.last.call = "Execution_getOutputOperandRank"
                          THEN <<1>> ELSE OutputDimensions[api'.index + 1]
               ELSE /\ api'.last.result = ANEURALNETWORKS_BAD_DATA
                    /\ api'.out = <<>>]_vars

\* The dimensions of output 0 were read after a computation that succeeded.
C32_Witness ==
    /\ api.phase = "api"
    /\ api.execution = [state |-> "finished", status |-> ANEURALNETWORKS_NO_ERROR]
    /\ api.last = [call |-> "Execution_getOutputOperandDimensions",
                   result |-> ANEURALNETWORKS_NO_ERROR]
    /\ api.index = 0 /\ api.out = <<1>>

\* How often a step was taken in the call.
StepCount(name) ==
    Cardinality({k \in 1..Len(hist.steps) : hist.steps[k] = name})

\* Calls on the prepared model of the backend: executeSynchronously, and
\* the asynchronous execute whether its launch succeeded or failed.
BackendCalls == StepCount("sync") + StepCount("async") + StepCount("launchFailed")

\* The driver's execute() has built its request and is past the dispatch.
Dispatched ==
    device = "driver" /\ HasStep("request") /\ pc \notin {"burst", "backend"}

\* C33: tryCompute of the burst is invoked iff a burst channel is supplied,
\* and at most once; the prepared model of the backend is called iff there
\* is no burst channel or the burst requested a fallback, and then exactly
\* once, with executeSynchronously iff syncExecHal is set and the
\* asynchronous execute otherwise; a burst that does not request a fallback
\* has its result delivered to the signal and no call on the prepared model
\* is made.
C33_DispatchSelection ==
    /\ device = "driver" =>
          /\ StepCount("burst") <= 1 /\ BackendCalls <= 1
          /\ HasStep("burst") => config.burstController
          /\ BackendCalls = 1 => (~config.burstController \/ hist.fallback)
          /\ HasStep("sync") => config.syncExecHal
          /\ (HasStep("async") \/ HasStep("launchFailed")) => ~config.syncExecHal
          /\ (HasStep("burst") /\ ~hist.fallback) =>
                 /\ executionCallback.notified
                 /\ hist.runtimeNotifies = 1
                 /\ [status |-> executionCallback.status,
                     outputShapes |-> executionCallback.outputShapes,
                     timing |-> executionCallback.timing] = hist.produced
    /\ Dispatched =>
          /\ HasStep("burst") <=> config.burstController
          /\ BackendCalls = 1 <=> (~config.burstController \/ hist.fallback)
          /\ BackendCalls = 1 => (HasStep("sync") <=> config.syncExecHal)

\* C33 witness: a burst answered NONE without asking for a fallback, its
\* result is in the signal and execute() returned without a call on the
\* prepared model.
C33_Witness ==
    /\ DriverReturned /\ config.burstController
    /\ StepCount("burst") = 1 /\ ~hist.fallback /\ BackendCalls = 0
    /\ hist.produced.status = "NONE"
    /\ hist.delivered = hist.produced
    /\ result = ANEURALNETWORKS_NO_ERROR

\* The pools of the call in the order the claim gives: those the caller's
\* tracker held before the call, then the input pool, then the output pool.
PoolsInOrder ==
    [i \in 1..hist.tracker0 |-> i]
       \o (IF inputPointerArguments # 0 THEN <<inputPointerArguments>> ELSE <<>>)
       \o (IF outputPointerArguments # 0 THEN <<outputPointerArguments>> ELSE <<>>)

\* C34: the pool list of the request has the length and the order of the
\* memory tracker at dispatch: the pools that were there before the call,
\* then the input pool, then the output pool of this call; with a burst
\* channel every one of them is associated with the channel when
\* tryCompute is called, and the memory ids passed to tryCompute are one
\* per request pool in the same order.
C34_RequestPoolsAndBurst ==
    (device = "driver" /\ request.built) =>
        /\ request.pools = memories
        /\ request.pools = PoolsInOrder
        /\ HasStep("burst") =>
              /\ \A i \in 1..Len(request.pools) :
                    request.pools[i] \in hist.usedAtTryCompute
              /\ Len(hist.memoryIds) = Len(request.pools)
              /\ \A i \in 1..Len(request.pools) :
                    hist.memoryIds[i] = request.pools[i]

\* C34 witness: a burst was tried on a request of three pools, the caller's
\* own, the input pool and the output pool.
C34_Witness ==
    /\ device = "driver" /\ request.built /\ HasStep("burst")
    /\ hist.tracker0 = 1
    /\ inputPointerArguments = 2 /\ outputPointerArguments = 3
    /\ request.pools = <<1, 2, 3>>
    /\ hist.memoryIds = <<1, 2, 3>>
    /\ hist.usedAtTryCompute = {1, 2, 3}

\* The POINTER arguments among the first k of a list.
PointersAmong(args, k) ==
    Cardinality({j \in 1..k : j <= Len(args) /\ args[j].state = POINTER})

\* The request pools that exist before POINTER argument i of a side is
\* given its own: the tracker's, those of the POINTER inputs when the side
\* is the outputs, and those of the POINTER arguments before it.
PoolsBefore(side, i) ==
    Len(memories)
      + (IF side = "out" THEN PointersAmong(hist.inputs0, Len(hist.inputs0)) ELSE 0)
      + PointersAmong(IF side = "in" THEN hist.inputs0 ELSE hist.outputs0, i - 1)

\* An argument list after fixPointerArguments: every POINTER argument has
\* offset 0, the index of a pool over its own buffer, and that index is the
\* number of pools before it; every other argument is as the caller gave it.
PointersFixed(args, args0, side) ==
    /\ Len(args) = Len(args0)
    /\ \A i \in 1..Len(args) :
          IF args0[i].state = POINTER
          THEN /\ args[i].locationAndLength.poolIndex = PoolsBefore(side, i)
               /\ args[i].locationAndLength.offset = Num(0)
               /\ args[i].locationAndLength.length = args0[i].locationAndLength.length
               /\ request.pools[PoolsBefore(side, i) + 1]
                     = <<"buffer", side, args0[i].buffer>>
          ELSE args[i] = args0[i]

\* C35: the reference device maps the pools of the tracker in tracker
\* order; when a mapping fails execute() returns UNMAPPABLE with a null
\* signal and the kernel is never run; otherwise every POINTER argument,
\* inputs first and then outputs, each in list order, has a pool of its own
\* over the caller's buffer, offset 0 and a pool index equal to the number
\* of request pools before it, so that the indices are distinct,
\* consecutive and start at the size of the tracker; the tracker is not
\* changed.
C35_CpuRequestPools ==
    device = "cpu" =>
        /\ memories = [i \in 1..hist.tracker0 |-> i]
        /\ result = ANEURALNETWORKS_UNMAPPABLE =>
              /\ pc = "done" /\ synchronizationCallback = "nullptr"
              /\ ~executionCallback.notified /\ hist.runtimeNotifies = 0
              /\ backend.thread = "none" /\ ~request.built
              /\ callerBuffers.out = OutputBuffers(hist.outputs0)
        /\ request.built =>
              /\ Len(request.pools) = Len(memories)
                    + PointersAmong(hist.inputs0, Len(hist.inputs0))
                    + PointersAmong(hist.outputs0, Len(hist.outputs0))
              /\ \A i \in 1..Len(memories) : request.pools[i] = <<"hidl", memories[i]>>
              /\ PointersFixed(inputs, hist.inputs0, "in")
              /\ PointersFixed(outputs, hist.outputs0, "out")

\* C35 witness: behind one pool of the tracker, a POINTER input has pool
\* index 1 and a POINTER output pool index 2, each over its own buffer.
C35_Witness ==
    /\ device = "cpu" /\ request.built /\ Len(memories) = 1
    /\ \E i \in 1..Len(inputs), o \in 1..Len(outputs) :
          /\ inputs[i].state = POINTER /\ outputs[o].state = POINTER
          /\ inputs[i].locationAndLength.poolIndex = 1
          /\ outputs[o].locationAndLength.poolIndex = 2
          /\ request.pools = <<<<"hidl", 1>>, <<"buffer", "in", inputs[i].buffer>>,
                               <<"buffer", "out", outputs[o].buffer>>>>

\* A mapping of the tracker's pool failed: execute() returned UNMAPPABLE.
C35_WitnessUnmappable ==
    device = "cpu" /\ result = ANEURALNETWORKS_UNMAPPABLE /\ HasStep("mapPools")

\* C36: when the pools were mapped, the reference device's execute()
\* returns NO_ERROR with the signal whatever code the kernel gave, a kernel
\* failure being carried by the status of the signal alone; with
\* syncExecCpu the signal is completed when execute() returns; without it
\* execute() may return while the signal is pending, the worker thread is
\* bound to the signal before execute() returns, whether or not the worker
\* has notified by then, and the worker notifies the signal exactly once.
C36_CpuExecutionModes ==
    (device = "cpu" /\ request.built) =>
        /\ Returned =>
              /\ result = ANEURALNETWORKS_NO_ERROR
              /\ synchronizationCallback = "callback"
        /\ config.syncExecCpu =>
              /\ backend.thread = "none" /\ ~backend.bound
              /\ Returned =>
                    /\ executionCallback.notified /\ hist.runtimeNotifies = 1
                    /\ executionCallback.status = hist.produced.status
        /\ ~config.syncExecCpu =>
              /\ Returned => (backend.bound /\ backend.thread \in {"running", "finished"})
              /\ backend.bound => Returned
              /\ hist.runtimeNotifies = (IF backend.thread = "finished" THEN 1 ELSE 0)
              /\ executionCallback.notified <=> backend.thread = "finished"
              /\ executionCallback.notified =>
                    executionCallback.status = hist.produced.status

\* C36 witness: without syncExecCpu, execute() has returned NO_ERROR with
\* the worker bound and the signal still pending.
C36_Witness ==
    /\ device = "cpu" /\ ~config.syncExecCpu /\ Returned
    /\ result = ANEURALNETWORKS_NO_ERROR /\ synchronizationCallback = "callback"
    /\ backend.bound /\ backend.thread = "running"
    /\ ~executionCallback.notified

\* The worker has notified a kernel failure before execute() bound it.
C36_WitnessNotifiedBeforeBind ==
    /\ device = "cpu" /\ pc = "bind" /\ backend.thread = "finished"
    /\ executionCallback.notified /\ executionCallback.status # "NONE"

\* C37: on the burst path without fallback and on the synchronous path the
\* signal is completed when the wait is reached, so the wait does not block;
\* on the asynchronous path execute() leaves the wait only once the backend
\* has notified, there being no timeout; when a launched backend eventually
\* calls back, execute() eventually returns.
C37_ExecuteTerminates ==
    /\ []((device = "driver" /\ pc = "wait" /\ ~HasStep("async")) =>
             executionCallback.notified)
    /\ [][(device = "driver" /\ pc = "wait" /\ ~executionCallback.notified) =>
             (pc' = "wait" /\ result' = result)]_vars
    /\ (device = "driver" /\ pc = "start") ~> Returned

\* C37 witness: an asynchronous execution was launched, execute() waited
\* for the backend's callback and has returned after it.
C37_Witness ==
    /\ DriverReturned /\ HasStep("async") /\ Waited
    /\ backend.launched /\ backend.notifies >= 1
    /\ hist.runtimeNotifies = 0

\* execute() is blocked in the wait: the launch succeeded and the backend
\* has not called back.
C37_WitnessBlocked ==
    /\ device = "driver" /\ pc = "wait" /\ backend.launched
    /\ backend.notifies = 0 /\ ~executionCallback.notified

\* The descriptors of one side that came from POINTER arguments name a pool
\* of the request, and that pool is the one allocated for the side.
PoolIndexValid(descriptors, args0, pool) ==
    \A i \in 1..Len(descriptors) :
       (args0[i].state = POINTER /\ ~descriptors[i].hasNoValue) =>
          /\ descriptors[i].location.poolIndex < Len(request.pools)
          /\ pool # 0
          /\ request.pools[descriptors[i].location.poolIndex + 1] = pool

\* C38: in the request the driver's execute() assembles, every descriptor
\* that has a value and came from a POINTER argument has a pool index below
\* the number of pools of the request, and it names the pool allocated for
\* its own side, also when all POINTER arguments of a side have length 0
\* and no pool is created for that side.
C38_PoolIndexValid ==
    (device = "driver" /\ request.built) =>
        /\ PoolIndexValid(request.inputs, hist.inputs0, inputPointerArguments)
        /\ PoolIndexValid(request.outputs, hist.outputs0, outputPointerArguments)

C39_WitnessDriver ==
    /\ DriverReturned /\ hist.callback0 = "stale" /\ HasStep("launchFailed")
    /\ result # ANEURALNETWORKS_NO_ERROR
    /\ synchronizationCallback = "nullptr"

\* C40: when the backend answers NONE with a vector of the length of the
\* graph, the vector DriverDevice::getSupportedOperations leaves is
\* pointwise at most the backend's: no operation the backend refused is
\* reported as supported; it is the backend's vector when the debug filter
\* is off (mSupported other than 1), and with the filter on the entries
\* that differ were true and have become false.
C40_NeverMoreThanBackend ==
    (/\ query.phase = "returned" /\ query.device = "driver"
     /\ query.status = "NONE"
     /\ Len(query.backendVector) = Len(query.operations)) =>
        /\ Len(query.out) = Len(query.operations)
        /\ \A i \in 1..Len(query.out) : query.out[i] => query.backendVector[i]
        /\ query.mSupported # 1 => query.out = query.backendVector
        /\ query.mSupported = 1 =>
              \A i \in 1..Len(query.out) :
                 query.out[i] # query.backendVector[i] =>
                    (query.backendVector[i] /\ ~query.out[i] /\ i \in query.oddHash)

\* C40 witness: the backend supports both operations of a graph of two and
\* the debug filter has switched the first off.
C40_Witness ==
    /\ query.phase = "returned" /\ query.device = "driver"
    /\ query.status = "NONE" /\ query.mSupported = 1
    /\ Len(query.operations) = 2
    /\ query.backendVector = <<TRUE, TRUE>>
    /\ query.oddHash = {1}
    /\ query.out = <<FALSE, TRUE>>

====
